---- MODULE Spec2Model ----
(***************************************************************************)
(* Stock-Sense: the KSE-30 predictors.                                     *)
(*   src/Model/kse_hybrid_ensemble.py   HybridEnsemblePredictor            *)
(*   src/stockSense-model/kse_stock_model.py   KSEStockPredictor           *)
(*   src/Model/api.py, src/stockSense-model/api.py   the serving layer     *)
(*                                                                         *)
(* Fixed-point conventions (all numbers are integers):                     *)
(*   confidence        in units of 1/ConfUnit of a point (40 = 40*ConfUnit)*)
(*   predicted_return  in thousandths of a percent (1.2% = 1200)           *)
(*   volatility        in units of 0.0001 (0.5% = 50)                      *)
(*   rsi               in whole points                                     *)
(*   R^2, spread       in hundredths                                       *)
(***************************************************************************)
EXTENDS Integers, Sequences, FiniteSets, TLC

VARIABLES
    call,       \* pure-function harness: the call being made (function name and arguments)
    result,     \* pure-function harness: what the call returned ("pending" before it runs)
    predictor,  \* the predictor object: its class and its attributes
    disk,       \* the model directory: ticker -> saved files, and the metadata file
    ret,        \* the last call on the predictor and what it returned or raised
    api         \* the API process: where load_or_train_model stands, what a request saw

pure_vars == <<call, result>>

predictor_vars == <<predictor, disk, ret>>

api_vars == <<api>>

vars == <<call, result, predictor, disk, ret, api>>

\* 15 keeps the mean of three R^2 values exact, 20 keeps the damping factors
\* 0.75, 0.85 and 0.6 exact.
ConfUnit == 15 * 20

Pts(n) == n * ConfUnit

Min(a, b) == IF a < b THEN a ELSE b

Max(a, b) == IF a > b THEN a ELSE b

Abs(x) == IF x < 0 THEN -x ELSE x

Regimes == {"Bull", "Bear", "Sideways"}

----------------------------------------------------------------------------
(***************************************************************************)
(* Signal generation.  The reasoning trail is kept as the ordered list of  *)
(* fragments the code appends; a fragment that formats a number carries    *)
(* that number.                                                            *)
(***************************************************************************)

\* a threshold with the volatility coefficient 0.5 instead of 0.4
buy_threshold_coeff5(volatility) == 1200 + 5 * volatility

\* buy_threshold = 1.2 + (volatility * 100) * 0.4, in thousandths of a percent
buy_threshold(volatility) == 1200 + 4 * volatility

sell_threshold(volatility) == -1200 - 4 * volatility

kse_buy_threshold(volatility) == 1200 + 4 * volatility

\* a sell threshold with the volatility coefficient 0.5 instead of 0.4
kse_sell_threshold_coeff5(volatility) == -1200 - 5 * volatility

kse_sell_threshold(volatility) == -1200 - 4 * volatility

\* the HOLD branch's regime fragment
RegimeReason(regime) ==
    IF regime = "Bull" THEN << <<"Bull regime - wait for dips">> >>
    ELSE IF regime = "Bear" THEN << <<"Bear regime - wait for bounces">> >>
    ELSE << >>

\* a bonus without its cap
strong_confidence_uncapped(confidence) == confidence + Pts(5)

\* sig_conf = min(95, confidence + 5)
strong_confidence(confidence) == Min(Pts(95), confidence + Pts(5))

\* the returned dict without the floor on its confidence
SignalOutNoFloor(action, sig_conf, reasoning) ==
    [action |-> action,
     confidence |-> sig_conf,
     reasoning |-> IF reasoning = << >> THEN << <<"No signal">> >> ELSE reasoning]

\* the returned dict: confidence floored at 15, an empty trail reads "No signal"
SignalOut(action, sig_conf, reasoning) ==
    [action |-> action,
     confidence |-> Max(Pts(15), sig_conf),
     reasoning |-> IF reasoning = << >> THEN << <<"No signal">> >> ELSE reasoning]

\* HybridEnsemblePredictor.generate_signal
generate_signal(predicted_return, confidence, rsi, volatility, regime) ==
    LET bt == buy_threshold(volatility)
        st == sell_threshold(volatility)
        up == <<"Upward", predicted_return, confidence>>
        down == <<"Downward", predicted_return, confidence>>
    IN  IF predicted_return > bt THEN
            IF confidence > Pts(40) THEN
                IF predicted_return > bt * 2 THEN
                    IF rsi < 75
                    THEN SignalOut("BUY", strong_confidence(confidence),
                                   <<up, <<"STRONG BULLISH">> >>)
                    ELSE SignalOut("HOLD", (confidence * 3) \div 4,
                                   <<up, <<"STRONG BULLISH">>, <<"RSI overbought">> >>)
                ELSE
                    IF rsi < 65
                    THEN SignalOut("BUY", confidence, <<up>>)
                    ELSE SignalOut("HOLD", (confidence * 17) \div 20,
                                   <<up, <<"RSI elevated">> >>)
            ELSE SignalOut("HOLD", confidence, << <<"Weak bullish - low confidence">> >>)
        ELSE IF predicted_return < st THEN
            IF confidence > Pts(40) THEN
                IF predicted_return < st * 2 THEN
                    IF rsi > 25
                    THEN SignalOut("SELL", strong_confidence(confidence),
                                   <<down, <<"STRONG BEARISH">> >>)
                    ELSE SignalOut("HOLD", (confidence * 3) \div 4,
                                   <<down, <<"STRONG BEARISH">>, <<"RSI oversold">> >>)
                ELSE
                    IF rsi > 35
                    THEN SignalOut("SELL", confidence, <<down>>)
                    ELSE SignalOut("HOLD", (confidence * 17) \div 20,
                                   <<down, <<"RSI depressed">> >>)
            ELSE SignalOut("HOLD", confidence, << <<"Weak bearish - low confidence">> >>)
        ELSE SignalOut("HOLD", (confidence * 3) \div 5,
                       << <<"Neutral", predicted_return>> >> \o RegimeReason(regime))

\* KSEStockPredictor.generate_signal
kse_generate_signal(predicted_return, confidence, rsi, volatility, regime) ==
    LET bt == kse_buy_threshold(volatility)
        st == kse_sell_threshold(volatility)
        up == <<"Upward", predicted_return, confidence>>
        down == <<"Downward", predicted_return, confidence>>
    IN  IF predicted_return > bt THEN
            IF confidence > Pts(38) THEN
                IF predicted_return > bt * 2 THEN
                    IF rsi < 75
                    THEN SignalOut("BUY", strong_confidence(confidence),
                                   <<up, <<"STRONG BULLISH">> >>)
                    ELSE SignalOut("HOLD", (confidence * 3) \div 4,
                                   <<up, <<"STRONG BULLISH">>, <<"RSI overbought">> >>)
                ELSE
                    IF rsi < 65
                    THEN SignalOut("BUY", confidence, <<up>>)
                    ELSE SignalOut("HOLD", (confidence * 17) \div 20,
                                   <<up, <<"RSI elevated">> >>)
            ELSE SignalOut("HOLD", confidence, << <<"Weak bullish - low confidence">> >>)
        ELSE IF predicted_return < st THEN
            IF confidence > Pts(38) THEN
                IF predicted_return < st * 2 THEN
                    IF rsi > 25
                    THEN SignalOut("SELL", strong_confidence(confidence),
                                   <<down, <<"STRONG BEARISH">> >>)
                    ELSE SignalOut("HOLD", (confidence * 3) \div 4,
                                   <<down, <<"STRONG BEARISH">>, <<"RSI oversold">> >>)
                ELSE
                    IF rsi > 35
                    THEN SignalOut("SELL", confidence, <<down>>)
                    ELSE SignalOut("HOLD", (confidence * 17) \div 20,
                                   <<down, <<"RSI depressed">> >>)
            ELSE SignalOut("HOLD", confidence, << <<"Weak bearish - low confidence">> >>)
        ELSE SignalOut("HOLD", (confidence * 3) \div 5,
                       << <<"Neutral", predicted_return>> >> \o RegimeReason(regime))

----------------------------------------------------------------------------
(***************************************************************************)
(* Confidence scoring.  metrics is the bundle's metrics record, a function *)
(* from metric names to values in hundredths; a name it lacks reads as the *)
(* default the code passes to dict.get.                                    *)
(***************************************************************************)

MetricGet(metrics, key, default) ==
    IF key \in DOMAIN metrics THEN metrics[key] ELSE default

\* a clamp that lost its lower bound
clamp_ensemble_no_floor(confidence) == Min(Pts(95), confidence)

\* confidence = max(25, min(95, float(confidence)))
clamp_ensemble(confidence) == Max(Pts(25), Min(Pts(95), confidence))

\* (1 - min(spread, 1)) * 20, for a spread in hundredths
agreement_boost(ensemble_spread) == (100 - Min(ensemble_spread, 100)) * 60

\* the volatility bands with their upper ends included
ensemble_vol_penalty_inclusive(volatility) ==
    IF volatility <= 50 THEN 0
    ELSE IF volatility <= 150 THEN -Pts(2)
    ELSE IF volatility <= 300 THEN -Pts(5)
    ELSE -Pts(10)

\* the volatility penalty of calculate_confidence_ensemble
ensemble_vol_penalty(volatility) ==
    IF volatility < 50 THEN 0
    ELSE IF volatility < 150 THEN -Pts(2)
    ELSE IF volatility < 300 THEN -Pts(5)
    ELSE -Pts(10)

\* HybridEnsemblePredictor.calculate_confidence_ensemble
calculate_confidence_ensemble(predicted_return, volatility, rsi, regime, ensemble_spread, metrics) ==
    LET lstm_r2 == MetricGet(metrics, "lstm_r2", 15)
        lgb_r2 == MetricGet(metrics, "lgb_r2", 18)
        xgb_r2 == MetricGet(metrics, "xgb_r2", 17)
        \* avg_r2 = r2_sum / 3, so avg_r2 < 0.1 is r2_sum < 30, and
        \* 55 + avg_r2 * 80 is Pts(55) + r2_sum * 80 in confidence units
        r2_sum == lstm_r2 + lgb_r2 + xgb_r2
        base_confidence ==
            IF r2_sum < 0 THEN Pts(35)
            ELSE IF r2_sum < 30 THEN Pts(45)
            ELSE IF r2_sum < 60 THEN Pts(55)
            ELSE IF r2_sum < 90 THEN Pts(65)
            ELSE Min(Pts(85), Pts(55) + r2_sum * 80)
        regime_adjust ==
            IF regime = "Bull" THEN Pts(2)
            ELSE IF regime = "Bear" THEN -Pts(2)
            ELSE 0
        confidence == base_confidence + agreement_boost(ensemble_spread)
                      + ensemble_vol_penalty(volatility) + regime_adjust
    IN  clamp_ensemble(confidence)

\* confidence = max(20, min(95, confidence))
kse_clamp(confidence) == Max(Pts(20), Min(Pts(95), confidence))

\* KSEStockPredictor.calculate_confidence; r2 and mape are the bundle's metrics,
\* mape in whole units
calculate_confidence(r2, mape, predicted_return, volatility, rsi, regime) ==
    LET base_confidence ==
            IF r2 < 0 THEN Pts(30)
            ELSE IF r2 < 5 THEN Pts(38)
            ELSE IF r2 < 10 THEN Pts(45)
            ELSE IF r2 < 15 THEN Pts(52)
            ELSE IF r2 < 20 THEN Pts(58)
            ELSE IF r2 < 30 THEN Pts(65)
            ELSE IF r2 < 50 THEN Pts(72)
            ELSE Min(Pts(90), Pts(60) + r2 * 240)
        mape_boost ==
            IF mape < 1 THEN Pts(25)
            ELSE IF mape < 2 THEN Pts(20)
            ELSE IF mape < 5 THEN Pts(15)
            ELSE IF mape < 10 THEN Pts(10)
            ELSE IF mape < 15 THEN Pts(5)
            ELSE IF mape < 25 THEN 0
            ELSE -Pts(10)
        regime_adjust ==
            IF regime = "Bull" THEN Pts(3)
            ELSE IF regime = "Bear" THEN -Pts(2)
            ELSE 0
        vol_penalty ==
            IF volatility < 50 THEN 0
            ELSE IF volatility < 150 THEN -Pts(2)
            ELSE IF volatility < 300 THEN -Pts(5)
            ELSE IF volatility < 500 THEN -Pts(8)
            ELSE -Pts(15)
        rsi_adjust == IF rsi > 80 \/ rsi < 20 THEN -Pts(3) ELSE 0
        mag_adjust ==
            IF Abs(predicted_return) < 300 THEN Pts(2)
            ELSE IF Abs(predicted_return) < 2000 THEN Pts(1)
            ELSE IF Abs(predicted_return) < 5000 THEN 0
            ELSE IF Abs(predicted_return) < 10000 THEN -Pts(5)
            ELSE -Pts(15)
        confidence == base_confidence + mape_boost + regime_adjust + vol_penalty
                      + rsi_adjust + mag_adjust
    IN  kse_clamp(confidence)

----------------------------------------------------------------------------
(***************************************************************************)
(* The predictor object.                                                   *)
(*                                                                         *)
(* A historical series (one ticker's DataFrame) is a record: n bars, bar i *)
(* (0-based) dated day i with close base + slope * i; extra says whether   *)
(* the CSV carried a numeric column beyond OHLCV; rsi, volatility and      *)
(* regime are the RSI_14, Volatility_20 and Regime the indicator engine    *)
(* computes for the last bar.                                              *)
(***************************************************************************)

\* tickers are numbered, sorted() is numeric order
MaxTickers == 2

Tickers == 1..MaxTickers

\* bar counts of the three kinds of series
ShortBars == 30

FewBars == 45

LongBars == 100

\* __init__(prediction_days=7, lstm_sequence_length=60)
DefaultPredictionDays == 7

lstm_sequence_length == 60

\* for lag in [1, 2, 3, 5, 7, 10, 20, 30]
MaxLag == 30

\* TimeSeriesSplit(n_splits=10)
n_splits == 10

\* Return_Lag_30 = Returns.shift(30) and Returns[0] is undefined: rows 0..30 hold a NaN
WarmUpRows == MaxLag + 1

Horizons == {1, DefaultPredictionDays}

Short == [id |-> "Short", n |-> ShortBars, base |-> 50, slope |-> 1, extra |-> FALSE,
          rsi |-> 50, volatility |-> 20, regime |-> "Sideways"]

Few == [id |-> "Few", n |-> FewBars, base |-> 80, slope |-> 1, extra |-> FALSE,
        rsi |-> 70, volatility |-> 200, regime |-> "Sideways"]

LongA == [id |-> "LongA", n |-> LongBars, base |-> 100, slope |-> 1, extra |-> FALSE,
          rsi |-> 60, volatility |-> 100, regime |-> "Bull"]

LongB == [id |-> "LongB", n |-> LongBars, base |-> 400, slope |-> -2, extra |-> FALSE,
          rsi |-> 30, volatility |-> 300, regime |-> "Bear"]

\* a series that falls by one a bar and closes at 0 on its last bar
Delisted == [id |-> "Delisted", n |-> LongBars, base |-> LongBars - 1, slope |-> 0 - 1,
             extra |-> FALSE, rsi |-> 10, volatility |-> 300, regime |-> "Bear"]

\* the same bars in a CSV that carries one more numeric column
WithExtra(df) == [df EXCEPT !.id = "LongA+", !.extra = TRUE]

\* a CSV file is the series it holds for each ticker that has rows in it
Csvs ==
    { [t \in Tickers |-> LongA],
      [t \in {1, MaxTickers} |-> IF t = 1 THEN Few ELSE LongB],
      [t \in Tickers \ {1} |-> Short],
      [t \in {1} |-> WithExtra(LongA)] }

\* a CSV whose series for ticker 1 ends on a close of 0.  It is given to the
\* ensemble only: the tabular predict divides numpy scalars, which gives inf
\* or nan there, values that the integers used here do not carry
DelistedCsv == [t \in {1} |-> Delisted]

CsvsFor(cls) == IF cls = "HybridEnsemblePredictor" THEN Csvs \cup {DelistedCsv} ELSE Csvs

Close(df, i) == df.base + df.slope * i

Date(df, i) == i

\* sorted(keys)
RECURSIVE SortedSeq(_)
SortedSeq(S) ==
    IF S = {} THEN << >>
    ELSE LET m == CHOOSE x \in S : \A y \in S : x <= y
         IN  <<m>> \o SortedSeq(S \ {m})

Put(f, k, v) == (k :> v) @@ f

\* the columns left after exclude_cols, in DataFrame order: the CSV's own
\* columns first, then the engineered ones (a representative few of the 150)
DerivedFeatureCols(df) ==
    (IF df.extra THEN <<"Turnover">> ELSE << >>)
    \o <<"Returns", "Log_Returns", "SMA_3", "RSI_14", "Return_Lag_30", "Kurtosis_60">>

\* df.dropna(): the rows left are WarmUpRows .. n - 1 - prediction_days
LastValidRow(df, h) == df.n - 1 - h

ValidRows(df, h) ==
    IF LastValidRow(df, h) >= WarmUpRows THEN LastValidRow(df, h) - WarmUpRows + 1 ELSE 0

\* StandardScaler().fit(X): remembers the columns it saw and their centre
FitStandardScaler(df, cols, h) ==
    [fit_on |-> df.id, cols |-> cols,
     mean |-> Close(df, (WarmUpRows + LastValidRow(df, h)) \div 2)]

\* MinMaxScaler().fit(prices)
FitMinMaxScaler(df) ==
    [fit_on |-> df.id,
     lo |-> Min(Close(df, 0), Close(df, df.n - 1)),
     hi |-> Max(Close(df, 0), Close(df, df.n - 1))]

\* __init__ of either class
NewPredictor(cls, h) ==
    [cls |-> cls, prediction_days |-> h, models |-> << >>, feature_cols |-> << >>,
     data_dict |-> << >>, scalers |-> << >>, lstm_scalers |-> << >>,
     ensemble_weights |-> <<35, 35, 30>>]

NoRow == 0 - 1

\* HybridEnsemblePredictor.prepare_features: what it raises ("none" when it
\* returns), the object as it leaves it, and the bar of the last row of the
\* frame it returns
prepare_features(self, df, ticker, fit_scaler) ==
    LET cols == DerivedFeatureCols(df)
        h == self.prediction_days
        derived == [self EXCEPT !.feature_cols = cols]
    IN  IF ValidRows(df, h) = 0 THEN
            [raised |-> "No valid data", self |-> self, last_row |-> NoRow]
        ELSE IF fit_scaler THEN
            [raised |-> "none",
             self |-> [derived EXCEPT !.scalers =
                           Put(self.scalers, ticker, FitStandardScaler(df, cols, h))],
             last_row |-> LastValidRow(df, h)]
        ELSE IF ticker \notin DOMAIN self.scalers THEN
            [raised |-> "No scaler", self |-> derived, last_row |-> NoRow]
        ELSE IF self.scalers[ticker].cols # cols THEN
            [raised |-> "X has other features", self |-> derived, last_row |-> NoRow]
        ELSE [raised |-> "none", self |-> derived, last_row |-> LastValidRow(df, h)]

\* KSEStockPredictor.prepare_features
kse_prepare_features(self, df, ticker, fit_scaler) ==
    LET cols == DerivedFeatureCols(df)
        h == self.prediction_days
        derived == [self EXCEPT !.feature_cols = cols]
    IN  IF ValidRows(df, h) = 0 THEN
            [raised |-> "No valid data", self |-> self, last_row |-> NoRow]
        ELSE IF fit_scaler THEN
            [raised |-> "none",
             self |-> [derived EXCEPT !.scalers =
                           Put(self.scalers, ticker, FitStandardScaler(df, cols, h))],
             last_row |-> LastValidRow(df, h)]
        ELSE IF ticker \notin DOMAIN self.scalers THEN
            [raised |-> "No scaler", self |-> derived, last_row |-> NoRow]
        ELSE IF self.scalers[ticker].cols # cols THEN
            [raised |-> "X has other features", self |-> derived, last_row |-> NoRow]
        ELSE [raised |-> "none", self |-> derived, last_row |-> LastValidRow(df, h)]

\* HybridEnsemblePredictor.prepare_lstm_sequences (ticker 0 is ticker=None):
\* which scaler scaled the prices, the object as it leaves it, and the number
\* of windows
prepare_lstm_sequences(self, df, fit_scaler, ticker) ==
    LET samples == Max(0, df.n - lstm_sequence_length)
    IN  IF fit_scaler /\ ticker # 0 THEN
            [scaled_by |-> "fitted and stored", scaler |-> FitMinMaxScaler(df),
             self |-> [self EXCEPT !.lstm_scalers =
                           Put(self.lstm_scalers, ticker, FitMinMaxScaler(df))],
             samples |-> samples]
        ELSE IF ticker # 0 /\ ticker \in DOMAIN self.lstm_scalers THEN
            [scaled_by |-> "stored", scaler |-> self.lstm_scalers[ticker],
             self |-> self, samples |-> samples]
        ELSE
            [scaled_by |-> "fitted on the call's data", scaler |-> FitMinMaxScaler(df),
             self |-> self, samples |-> samples]

----------------------------------------------------------------------------
(***************************************************************************)
(* Sub-models.  The trained regressors are library objects; each is stood  *)
(* for by a fixed function of its input: a tree model by the close of the  *)
(* row it is given, re-centred by the scaler that scaled the row, times    *)
(* the relative move it learned; the sequence model by the last close of   *)
(* its window times the move it learned.                                   *)
(***************************************************************************)

\* the relative move (percent) a regressor learns from a series
LearnedGain(df) == 10 * df.slope

\* np.mean(r2_scores), np.mean(mape_scores) of the cross-validation
CvR2(df, h) == IF ValidRows(df, h) >= 50 THEN 40 ELSE 5

CvMape(df, h) == 3

TrainedTree(df, cols, h) ==
    [trained_on |-> df.id, cols |-> cols, gain |-> LearnedGain(df),
     mean |-> FitStandardScaler(df, cols, h).mean]

\* model.predict(latest_features)
TreePredict(model, scaler, df, row) ==
    ((Close(df, row) - scaler.mean + model.mean) * (100 + model.gain)) \div 100

\* inverse_transform(lstm.predict(transform(window)))
LstmPredict(model, scaler, df) ==
    (Close(df, df.n - 1) * (100 + model.gain)) \div 100

Raised(self, error) == [raised |-> error, self |-> self]

----------------------------------------------------------------------------
(***************************************************************************)
(* KSEStockPredictor: training and prediction.                             *)
(***************************************************************************)

\* KSEStockPredictor.train_model; lib_error: lgb.train raises
kse_train_model(self, ticker, lib_error) ==
    IF ticker \notin DOMAIN self.data_dict THEN Raised(self, "No data")
    ELSE
        LET df == self.data_dict[ticker]
            h == self.prediction_days
            prep == kse_prepare_features(self, df, ticker, TRUE)
        IN  IF prep.raised # "none" THEN Raised(prep.self, prep.raised)
            \* tscv.split(X) needs n_splits + 1 samples
            ELSE IF ValidRows(df, h) < n_splits + 1 THEN
                Raised(prep.self, "Cannot have number of folds greater than the number of samples")
            ELSE IF lib_error THEN Raised(prep.self, "LightGBMError")
            ELSE Raised([prep.self EXCEPT !.models = Put(self.models, ticker,
                            [model |-> TrainedTree(df, prep.self.feature_cols, h),
                             metrics |-> [r2 |-> CvR2(df, h), mape |-> CvMape(df, h)]])],
                        "none")

\* the loop of train_all_models over todo (sorted tickers); lib_errors is the
\* set of tickers whose lgb.train raises.  Returns the object, the counters
\* and the tickers attempted, in order.
RECURSIVE kse_train_loop(_, _, _, _)
kse_train_loop(self, todo, lib_errors, acc) ==
    IF todo = << >> THEN [self |-> self, trained |-> acc.trained, failed |-> acc.failed,
                          attempted |-> acc.attempted, failures |-> acc.failures]
    ELSE
        LET ticker == Head(todo)
            out == kse_train_model(self, ticker, ticker \in lib_errors)
        IN  IF out.raised = "none"
            THEN kse_train_loop(out.self, Tail(todo), lib_errors,
                     [acc EXCEPT !.trained = @ + 1, !.attempted = Append(@, ticker)])
            \* except Exception: failed += 1
            ELSE kse_train_loop(out.self, Tail(todo), lib_errors,
                     [acc EXCEPT !.failed = @ + 1, !.attempted = Append(@, ticker),
                                 !.failures = @ \cup {ticker}])

\* KSEStockPredictor.train_all_models
kse_train_all_models(self, lib_errors) ==
    IF DOMAIN self.data_dict = {} THEN
        [raised |-> "No data loaded", self |-> self, trained |-> 0, failed |-> 0,
         attempted |-> << >>, failures |-> {}]
    ELSE
        LET out == kse_train_loop(self, SortedSeq(DOMAIN self.data_dict), lib_errors,
                       [trained |-> 0, failed |-> 0, attempted |-> << >>, failures |-> {}])
        IN  [raised |-> "none", self |-> out.self, trained |-> out.trained,
             failed |-> out.failed, attempted |-> out.attempted, failures |-> out.failures]

\* round(x, 2) of a return held in thousandths: hundredths
RoundReturn(x) == (x + 5) \div 10

\* round(x, 2) of a confidence held in 1/ConfUnit: hundredths
RoundConfidence(c) == (c + 1) \div 3

NoTrace == [feature_row |-> NoRow, price_bar |-> NoRow, date_bar |-> NoRow]

PredictRaised(self, error) ==
    [raised |-> error, self |-> self, value |-> [error |-> error], trace |-> NoTrace]

\* KSEStockPredictor.predict: what it raises or returns, the object as it
\* leaves it, and the bars its inputs came from
kse_predict(self, ticker) ==
    IF ticker \notin DOMAIN self.models THEN PredictRaised(self, "No model")
    ELSE IF ticker \notin DOMAIN self.data_dict THEN PredictRaised(self, "No data")
    ELSE
        LET df == self.data_dict[ticker]
            h == self.prediction_days
            prep == kse_prepare_features(self, df, ticker, FALSE)
            bundle == self.models[ticker]
        IN  IF prep.raised # "none" THEN PredictRaised(prep.self, prep.raised)
            ELSE IF Len(bundle.model.cols) # Len(prep.self.feature_cols) THEN
                PredictRaised(prep.self, "The number of features in data is not the same")
            ELSE
                LET \* latest_data = df_prepared[self.feature_cols].iloc[-1:]
                    feature_row == prep.last_row
                    \* current_price = self.data_dict[ticker]['Close'].iloc[-1]
                    price_bar == df.n - 1
                    current_price == Close(df, price_bar)
                    \* current_date = df_prepared['Date'].iloc[-1]
                    date_bar == prep.last_row
                    current_date == Date(df, date_bar)
                    predicted_price ==
                        TreePredict(bundle.model, self.scalers[ticker], df, feature_row)
                    predicted_return ==
                        ((predicted_price - current_price) * 100000) \div current_price
                    confidence ==
                        calculate_confidence(bundle.metrics.r2, bundle.metrics.mape,
                            predicted_return, df.volatility, df.rsi, df.regime)
                    signal == kse_generate_signal(predicted_return, confidence, df.rsi,
                                                  df.volatility, df.regime)
                IN  [raised |-> "none", self |-> prep.self,
                     value |->
                        [ticker |-> ticker,
                         current_price |-> current_price,
                         predicted_price |-> predicted_price,
                         predicted_return |-> RoundReturn(predicted_return),
                         prediction_horizon_days |-> h,
                         current_date |-> current_date,
                         prediction_date |-> current_date + h,
                         signal |-> signal.action,
                         confidence |-> RoundConfidence(signal.confidence),
                         reasoning |-> signal.reasoning,
                         technical_indicators |->
                            [rsi_14 |-> df.rsi, volatility |-> df.volatility,
                             market_regime |-> df.regime],
                         model_metrics |-> bundle.metrics],
                     trace |-> [feature_row |-> feature_row, price_bar |-> price_bar,
                                date_bar |-> date_bar]]

\* the loop of predict_all over todo (sorted tickers)
RECURSIVE kse_predict_loop(_, _, _)
kse_predict_loop(self, todo, acc) ==
    IF todo = << >> THEN [self |-> self, predictions |-> acc.predictions,
                          visited |-> acc.visited]
    ELSE
        LET ticker == Head(todo)
            out == kse_predict(self, ticker)
            entry == IF out.raised = "none" THEN out.value
                     \* except Exception as e: {'ticker': ticker, 'error': str(e)}
                     ELSE [ticker |-> ticker, error |-> out.raised]
        IN  kse_predict_loop(out.self, Tail(todo),
                [predictions |-> Put(acc.predictions, ticker, entry),
                 visited |-> Append(acc.visited, ticker)])

\* KSEStockPredictor.predict_all
kse_predict_all(self) ==
    kse_predict_loop(self, SortedSeq(DOMAIN self.models),
                     [predictions |-> << >>, visited |-> << >>])

----------------------------------------------------------------------------
(***************************************************************************)
(* HybridEnsemblePredictor: prediction, and loading saved bundles.         *)
(***************************************************************************)

\* (max - min) / (mean + 1e-10), in hundredths
EnsembleSpread(a, b, c) ==
    LET hi == Max(a, Max(b, c))
        lo == Min(a, Min(b, c))
    IN  IF a + b + c # 0 THEN (300 * (hi - lo)) \div (a + b + c)
        ELSE IF hi = lo THEN 0 ELSE 1000000000

\* a vote that gives the first two sub-models their weight and drops the third
EnsembleVoteTwo(weights, lstm_pred, lgb_pred, xgb_pred) ==
    weights[1] * lstm_pred + weights[2] * lgb_pred

\* weights[0] * lstm_pred + weights[1] * lgb_pred + weights[2] * xgb_pred, the
\* weights in hundredths, so the price comes out in hundredths
EnsembleVote(weights, lstm_pred, lgb_pred, xgb_pred) ==
    weights[1] * lstm_pred + weights[2] * lgb_pred + weights[3] * xgb_pred

\* an agreement that does not cap the spread at 1
ensemble_agreement_uncapped(ensemble_spread) == 100 - ensemble_spread

\* round(100 * (1 - min(ensemble_spread, 1)), 2), in percent
ensemble_agreement(ensemble_spread) == 100 - Min(ensemble_spread, 100)

\* the feature list read before prepare_features has re-derived it
SliceColsStale(before, after) == before.feature_cols

\* df_prepared[self.feature_cols]: self.feature_cols is read after
\* prepare_features has set it
SliceCols(before, after) == after.feature_cols

\* a window that is taken as it comes, whatever its length
WindowFitsAnyLength(df) == TRUE

\* df['Close'].tail(lstm_sequence_length) reshaped to (1, lstm_sequence_length, 1):
\* numpy raises unless the tail has exactly lstm_sequence_length prices
WindowFits(df) == df.n >= lstm_sequence_length

\* HybridEnsemblePredictor.predict
predict(self, ticker) ==
    IF ticker \notin DOMAIN self.models THEN PredictRaised(self, "No ensemble")
    ELSE IF ticker \notin DOMAIN self.data_dict THEN PredictRaised(self, "No data")
    ELSE
        LET df == self.data_dict[ticker]
            h == self.prediction_days
            bundle == self.models[ticker]
            price_bar == df.n - 1
            current_price == Close(df, price_bar)
            date_bar == df.n - 1
            current_date == Date(df, date_bar)
        IN  \* self.lstm_scalers[ticker].transform(lstm_prices)
            IF ticker \notin DOMAIN self.lstm_scalers THEN PredictRaised(self, "KeyError")
            \* lstm_prices_scaled.reshape(1, self.lstm_sequence_length, 1)
            ELSE IF ~WindowFits(df) THEN PredictRaised(self, "cannot reshape")
            ELSE
                LET lstm_pred == LstmPredict(bundle.lstm, self.lstm_scalers[ticker], df)
                    prep == prepare_features(self, df, ticker, FALSE)
                IN  IF prep.raised # "none" THEN PredictRaised(prep.self, prep.raised)
                    ELSE IF Len(bundle.lgb.cols) # Len(SliceCols(self, prep.self)) THEN
                        PredictRaised(prep.self,
                                      "The number of features in data is not the same")
                    ELSE
                        LET \* latest_features = df_prepared[self.feature_cols].iloc[-1:]
                            feature_row == prep.last_row
                            lgb_pred == TreePredict(bundle.lgb, self.scalers[ticker], df,
                                                    feature_row)
                            xgb_pred == TreePredict(bundle.xgb, self.scalers[ticker], df,
                                                    feature_row)
                            weights == bundle.ensemble_weights
                            \* the ensemble price in hundredths
                            ensemble_pred == EnsembleVote(weights, lstm_pred, lgb_pred,
                                                          xgb_pred)
                        IN  IF current_price = 0 THEN
                                PredictRaised(prep.self, "float division by zero")
                            ELSE
                            LET predicted_return ==
                                    ((ensemble_pred - 100 * current_price) * 1000)
                                        \div current_price
                                ensemble_spread == EnsembleSpread(lstm_pred, lgb_pred, xgb_pred)
                                confidence ==
                                    calculate_confidence_ensemble(predicted_return,
                                        df.volatility, df.rsi, df.regime, ensemble_spread,
                                        bundle.metrics)
                                signal == generate_signal(predicted_return, confidence,
                                                          df.rsi, df.volatility, df.regime)
                            IN  [raised |-> "none", self |-> prep.self,
                                 value |->
                                    [ticker |-> ticker,
                                     current_price |-> current_price,
                                     predicted_price |-> ensemble_pred,
                                     predicted_return |-> RoundReturn(predicted_return),
                                     prediction_horizon_days |-> h,
                                     current_date |-> current_date,
                                     prediction_date |-> current_date + h,
                                     signal |-> signal.action,
                                     confidence |-> RoundConfidence(signal.confidence),
                                     reasoning |-> signal.reasoning,
                                     technical_indicators |->
                                        [rsi_14 |-> df.rsi, volatility |-> df.volatility,
                                         market_regime |-> df.regime],
                                     model_predictions |->
                                        [lstm |-> lstm_pred, lightgbm |-> lgb_pred,
                                         xgboost |-> xgb_pred, ensemble |-> ensemble_pred],
                                     model_metrics |->
                                        [lstm_r2 |-> MetricGet(bundle.metrics, "lstm_r2", 15),
                                         lgb_r2 |-> MetricGet(bundle.metrics, "lgb_r2", 18),
                                         xgb_r2 |-> MetricGet(bundle.metrics, "xgb_r2", 17)],
                                     ensemble_agreement |-> ensemble_agreement(ensemble_spread)],
                                 trace |-> [feature_row |-> feature_row,
                                            price_bar |-> price_bar, date_bar |-> date_bar]]

\* a predict_all without the try/except: the first failure ends the loop
RECURSIVE predict_loop_no_catch(_, _, _)
predict_loop_no_catch(self, todo, acc) ==
    IF todo = << >> THEN [self |-> self, predictions |-> acc.predictions,
                          visited |-> acc.visited]
    ELSE
        LET ticker == Head(todo)
            out == predict(self, ticker)
        IN  IF out.raised # "none"
            THEN [self |-> out.self, predictions |-> acc.predictions,
                  visited |-> Append(acc.visited, ticker)]
            ELSE predict_loop_no_catch(out.self, Tail(todo),
                    [predictions |-> Put(acc.predictions, ticker, out.value),
                     visited |-> Append(acc.visited, ticker)])

\* the loop of predict_all over todo (sorted tickers)
RECURSIVE predict_loop(_, _, _)
predict_loop(self, todo, acc) ==
    IF todo = << >> THEN [self |-> self, predictions |-> acc.predictions,
                          visited |-> acc.visited]
    ELSE
        LET ticker == Head(todo)
            out == predict(self, ticker)
            entry == IF out.raised = "none" THEN out.value
                     \* except Exception as e: {'ticker': ticker, 'error': str(e)}
                     ELSE [ticker |-> ticker, error |-> out.raised]
        IN  predict_loop(out.self, Tail(todo),
                [predictions |-> Put(acc.predictions, ticker, entry),
                 visited |-> Append(acc.visited, ticker)])

\* HybridEnsemblePredictor.predict_all
predict_all(self) ==
    predict_loop(self, SortedSeq(DOMAIN self.models),
                 [predictions |-> << >>, visited |-> << >>])

\* load_data of either class: every ticker with rows in the CSV gets its
\* series stored (drop_duplicates, sort_values, split by ticker)
load_data(self, csv) ==
    [self EXCEPT !.data_dict = [t \in DOMAIN csv \cup DOMAIN self.data_dict |->
                                   IF t \in DOMAIN csv THEN csv[t] ELSE self.data_dict[t]]]

\* the required files without the price scaler's
RequiredFilesNoLstmScaler == {"lgb.txt", "xgb.json", "scaler_gbm.pkl"}

\* the bundle files load_models needs besides <ticker>_lstm.h5
RequiredFiles == {"lgb.txt", "xgb.json", "scaler_gbm.pkl", "scaler_lstm.pkl"}

DefaultMetrics == [lstm_r2 |-> 15, lgb_r2 |-> 18, xgb_r2 |-> 17, lgb_mae |-> 0, xgb_mae |-> 0]

\* the loop of load_models over the tickers that have an _lstm.h5 file
RECURSIVE load_models_loop(_, _, _)
load_models_loop(self, saved, todo) ==
    IF todo = {} THEN self
    ELSE
        LET ticker == CHOOSE t \in todo : TRUE
            entry == saved[ticker]
        IN  IF ~(RequiredFiles \subseteq entry.files)
            \* except Exception: continue
            THEN load_models_loop(self, saved, todo \ {ticker})
            ELSE load_models_loop(
                    [self EXCEPT
                        !.models = Put(self.models, ticker,
                            [lstm |-> entry.lstm, lgb |-> entry.lgb, xgb |-> entry.xgb,
                             ensemble_weights |-> self.ensemble_weights,
                             metrics |-> IF "metrics.json" \in entry.files
                                         THEN entry.metrics ELSE DefaultMetrics]),
                        !.scalers = Put(self.scalers, ticker, entry.scaler_gbm),
                        !.lstm_scalers = Put(self.lstm_scalers, ticker, entry.scaler_lstm)],
                    saved, todo \ {ticker})

\* HybridEnsemblePredictor.load_models
load_models(self, saved) ==
    load_models_loop(self, saved, {t \in DOMAIN saved : "lstm.h5" \in saved[t].files})

----------------------------------------------------------------------------
(***************************************************************************)
(* The model directory.  What training and save_models leave there for a   *)
(* ticker trained on df: the three sub-models, the two scalers and the     *)
(* metrics file.                                                           *)
(***************************************************************************)

BundleFiles == {"lstm.h5", "metrics.json"} \cup RequiredFiles

SavedBundle(df, h) ==
    LET cols == DerivedFeatureCols(df)
    IN  [files |-> BundleFiles,
         lstm |-> [trained_on |-> df.id, gain |-> LearnedGain(df)],
         lgb |-> TrainedTree(df, cols, h),
         xgb |-> [TrainedTree(df, cols, h) EXCEPT !.gain = @ + 2],
         scaler_gbm |-> FitStandardScaler(df, cols, h),
         scaler_lstm |-> FitMinMaxScaler(df),
         metrics |-> [lstm_r2 |-> 25, lgb_r2 |-> 40, xgb_r2 |-> 35, lgb_mae |-> 2,
                      xgb_mae |-> 2]]

NoMetadata == [present |-> FALSE, readable |-> FALSE, feature_cols |-> << >>]

NoPickle == [present |-> FALSE, readable |-> FALSE]

EmptyDisk == [saved |-> << >>, metadata |-> NoMetadata, pickle |-> NoPickle]

\* every ticker saved whole, with the metadata file
DiskFull ==
    [saved |-> [t \in Tickers |-> SavedBundle(LongA, DefaultPredictionDays)],
     metadata |-> [present |-> TRUE, readable |-> TRUE,
                   feature_cols |-> DerivedFeatureCols(LongA)],
     pickle |-> NoPickle]

\* ticker 1 saved without its metrics file, the others without their price
\* scaler; no metadata file
DiskPartial ==
    [saved |-> [t \in Tickers |->
                   [SavedBundle(LongA, DefaultPredictionDays) EXCEPT !.files =
                        IF t = 1 THEN @ \ {"metrics.json"} ELSE @ \ {"scaler_lstm.pkl"}]],
     metadata |-> NoMetadata, pickle |-> NoPickle]

----------------------------------------------------------------------------
(***************************************************************************)
(* Spec: one predictor object of either class and the calls made on it.    *)
(***************************************************************************)

Classes == {"HybridEnsemblePredictor", "KSEStockPredictor"}

IsEnsemble == predictor.cls = "HybridEnsemblePredictor"

IsTabular == predictor.cls = "KSEStockPredictor"

PureIdle == call = [fn |-> "none"] /\ result = [status |-> "pending"]

PredictorIdle ==
    /\ predictor = NewPredictor("KSEStockPredictor", DefaultPredictionDays)
    /\ disk = EmptyDisk
    /\ ret = [op |-> "__init__"]

\* no API process
ApiIdle == api = [pc |-> "off"]

\* predict of the object's class
class_predict(self, ticker) ==
    IF self.cls = "HybridEnsemblePredictor" THEN predict(self, ticker)
    ELSE kse_predict(self, ticker)

\* predict_all of the object's class
class_predict_all(self) ==
    IF self.cls = "HybridEnsemblePredictor" THEN predict_all(self) ELSE kse_predict_all(self)

\* list(all_preds.values()): the entries in the order they were inserted
ValuesOf(out) == [i \in 1..Len(out.visited) |-> out.predictions[out.visited[i]]]

\* [p for p in ... if 'error' not in p and p['signal'] == signal]
RECURSIVE WithSignal(_, _)
WithSignal(entries, signal) ==
    IF entries = << >> THEN << >>
    ELSE LET p == Head(entries)
             rest == WithSignal(Tail(entries), signal)
         IN  IF "error" \notin DOMAIN p /\ p.signal = signal THEN <<p>> \o rest ELSE rest

\* one record put into a list already sorted by key, before the first
\* record whose key is strictly smaller
RECURSIVE InsertByConfidence(_, _)
InsertByConfidence(sorted, p) ==
    IF sorted = << >> THEN <<p>>
    ELSE IF Head(sorted).confidence < p.confidence THEN <<p>> \o sorted
    ELSE <<Head(sorted)>> \o InsertByConfidence(Tail(sorted), p)

\* a sort that leaves the records in the order they came
SortByConfidenceNot(entries) == entries

\* list.sort(key=lambda x: x['confidence'], reverse=True): stable
RECURSIVE SortByConfidence(_)
SortByConfidence(entries) ==
    IF entries = << >> THEN << >>
    ELSE InsertByConfidence(SortByConfidence(SubSeq(entries, 1, Len(entries) - 1)),
                            entries[Len(entries)])

\* entries[:top_n], top_n >= 0
FirstN(entries, top_n) == SubSeq(entries, 1, Min(top_n, Len(entries)))

\* the two lists that get_top_recommendations builds from all_preds
TopLists(all_preds, top_n) ==
    [self |-> all_preds.self,
     value |-> [top_buys |->
                    FirstN(SortByConfidence(WithSignal(ValuesOf(all_preds), "BUY")), top_n),
                top_sells |->
                    FirstN(SortByConfidence(WithSignal(ValuesOf(all_preds), "SELL")), top_n)]]

\* get_top_recommendations of either class
get_top_recommendations(self, top_n) == TopLists(class_predict_all(self), top_n)

\* the API passes max(1, min(top_n, 15))
MaxTopN == 2

Init ==
    /\ PureIdle
    /\ ApiIdle
    /\ \E cls \in Classes, h \in Horizons : predictor = NewPredictor(cls, h)
    /\ disk \in (IF IsEnsemble THEN {DiskFull, DiskPartial} ELSE {EmptyDisk})
    /\ ret = [op |-> "__init__"]

LoadData ==
    \E csv \in CsvsFor(predictor.cls) :
        /\ predictor' = load_data(predictor, csv)
        /\ ret' = [op |-> "load_data"]
        /\ UNCHANGED <<disk, pure_vars, api_vars>>

TrainModel ==
    \E ticker \in Tickers, lib_error \in BOOLEAN :
        /\ IsTabular
        /\ LET out == kse_train_model(predictor, ticker, lib_error)
           IN  /\ predictor' = out.self
               /\ ret' = [op |-> "train_model", ticker |-> ticker, raised |-> out.raised]
        /\ UNCHANGED <<disk, pure_vars, api_vars>>

\* lgb.train raises for at most one ticker of a batch
TrainAllModels ==
    \E lib_errors \in {{}} \cup {{t} : t \in Tickers} :
        /\ IsTabular
        /\ LET out == kse_train_all_models(predictor, lib_errors)
           IN  /\ predictor' = out.self
               /\ ret' = [op |-> "train_all_models", raised |-> out.raised,
                          trained |-> out.trained, failed |-> out.failed,
                          attempted |-> out.attempted, failures |-> out.failures]
        /\ UNCHANGED <<disk, pure_vars, api_vars>>

Predict ==
    \E ticker \in Tickers :
        /\ LET out == class_predict(predictor, ticker)
           IN  /\ predictor' = out.self
               /\ ret' = [op |-> "predict", ticker |-> ticker, raised |-> out.raised,
                          value |-> out.value, trace |-> out.trace]
        /\ UNCHANGED <<disk, pure_vars, api_vars>>

PredictAll ==
    /\ LET out == class_predict_all(predictor)
       IN  /\ predictor' = out.self
           /\ ret' = [op |-> "predict_all", predictions |-> out.predictions,
                      visited |-> out.visited]
    /\ UNCHANGED <<disk, pure_vars, api_vars>>

\* prepare_features(df, ticker, fit_scaler=False) on a stored series
PrepareFeaturesInference ==
    \E ticker \in Tickers, source \in DOMAIN predictor.data_dict :
        /\ LET df == predictor.data_dict[source]
               out == IF IsEnsemble THEN prepare_features(predictor, df, ticker, FALSE)
                      ELSE kse_prepare_features(predictor, df, ticker, FALSE)
           IN  /\ predictor' = out.self
               /\ ret' = [op |-> "prepare_features", ticker |-> ticker,
                          fit_scaler |-> FALSE, raised |-> out.raised]
        /\ UNCHANGED <<disk, pure_vars, api_vars>>

\* prepare_lstm_sequences(df, fit_scaler=False, ticker) on a stored series
PrepareLstmSequencesInference ==
    \E ticker \in Tickers, source \in DOMAIN predictor.data_dict :
        /\ IsEnsemble
        /\ LET out == prepare_lstm_sequences(predictor, predictor.data_dict[source],
                                             FALSE, ticker)
           IN  /\ predictor' = out.self
               /\ ret' = [op |-> "prepare_lstm_sequences", ticker |-> ticker,
                          fit_scaler |-> FALSE, scaled_by |-> out.scaled_by,
                          samples |-> out.samples]
        /\ UNCHANGED <<disk, pure_vars, api_vars>>

LoadModels ==
    /\ IsEnsemble
    /\ predictor' = load_models(predictor, disk.saved)
    /\ ret' = [op |-> "load_models"]
    /\ UNCHANGED <<disk, pure_vars, api_vars>>

\* api.py: predictor.feature_cols = metadata.get('feature_cols', [])
RestoreMetadata ==
    /\ IsEnsemble
    /\ disk.metadata.present
    /\ disk.metadata.readable
    /\ predictor' = [predictor EXCEPT !.feature_cols = disk.metadata.feature_cols]
    /\ ret' = [op |-> "restore_metadata"]
    /\ UNCHANGED <<disk, pure_vars, api_vars>>

GetTopRecommendations ==
    \E top_n \in 1..MaxTopN :
        /\ LET out == get_top_recommendations(predictor, top_n)
           IN  /\ predictor' = out.self
               /\ ret' = [op |-> "get_top_recommendations", top_n |-> top_n,
                          value |-> out.value]
        /\ UNCHANGED <<disk, pure_vars, api_vars>>

Next ==
    \/ LoadData
    \/ TrainModel
    \/ TrainAllModels
    \/ Predict
    \/ PredictAll
    \/ PrepareFeaturesInference
    \/ PrepareLstmSequencesInference
    \/ LoadModels
    \/ RestoreMetadata
    \/ GetTopRecommendations

Spec == Init /\ [][Next]_vars

----------------------------------------------------------------------------
(***************************************************************************)
(* SpecApi: the two API processes.  The module global predictor is the     *)
(* variable predictor (None before the first assignment);                  *)
(* load_or_train_model runs one statement group per step, and once         *)
(* initialize_api has returned the server answers requests between any two *)
(* of them.                                                                *)
(***************************************************************************)

None == [cls |-> "None"]

ApiModules == {"Model/api.py", "stockSense-model/api.py"}

\* the CSV file at CSV_PATH: its series when pandas can read it
ApiCsv == [t \in Tickers |-> IF t = 1 THEN LongA ELSE LongB]

\* the same file when every ticker but the first has too few rows to train on
ShortCsv == [t \in Tickers |-> IF t = 1 THEN LongA ELSE Short]

CsvStates == {"ok", "short", "unreadable", "missing"}

CsvReadable(state) == state \in {"ok", "short"}

CsvContent(state) == IF state = "short" THEN ShortCsv ELSE ApiCsv

\* HybridEnsemblePredictor.train_all_models: each loaded symbol with enough
\* history gets its sequence scaler, its tabular scaler and its bundle;
\* the others are skipped
RECURSIVE train_all_models_loop(_, _)
train_all_models_loop(self, todo) ==
    IF todo = << >> THEN self
    ELSE
        LET ticker == Head(todo)
            df == self.data_dict[ticker]
            h == self.prediction_days
            fitted == SavedBundle(df, h)
        IN  IF ValidRows(df, h) < n_splits + 1 \/ df.n <= lstm_sequence_length + h
            THEN train_all_models_loop(self, Tail(todo))
            ELSE train_all_models_loop(
                     [self EXCEPT !.feature_cols = DerivedFeatureCols(df),
                                  !.lstm_scalers = Put(@, ticker, fitted.scaler_lstm),
                                  !.scalers = Put(@, ticker, fitted.scaler_gbm),
                                  !.models = Put(@, ticker,
                                      [lstm |-> fitted.lstm, lgb |-> fitted.lgb,
                                       xgb |-> fitted.xgb,
                                       ensemble_weights |-> self.ensemble_weights,
                                       metrics |-> fitted.metrics])],
                     Tail(todo))

train_all_models(self) == train_all_models_loop(self, SortedSeq(DOMAIN self.data_dict))

\* create_hybrid_ensemble: built in a local, returned whole
create_hybrid_ensemble(csv, prediction_days) ==
    train_all_models(load_data(NewPredictor("HybridEnsemblePredictor", prediction_days), csv))

\* create_advanced_predictor: built in a local, returned whole
create_advanced_predictor(csv, prediction_days) ==
    kse_train_all_models(load_data(NewPredictor("KSEStockPredictor", prediction_days), csv),
                         {}).self

\* save_models and the metadata file written after it
save_models(self, on_disk) ==
    [on_disk EXCEPT
        !.saved = [t \in DOMAIN self.models \cup DOMAIN on_disk.saved |->
                      IF t \in DOMAIN self.models
                      THEN [files |-> BundleFiles, lstm |-> self.models[t].lstm,
                            lgb |-> self.models[t].lgb, xgb |-> self.models[t].xgb,
                            scaler_gbm |-> self.scalers[t],
                            scaler_lstm |-> self.lstm_scalers[t],
                            metrics |-> self.models[t].metrics]
                      ELSE on_disk.saved[t]],
        !.metadata = [present |-> TRUE, readable |-> TRUE,
                      feature_cols |-> self.feature_cols]]

\* pickle.dump(predictor, f)
pickle_dump(self, on_disk) ==
    [on_disk EXCEPT !.pickle = [present |-> TRUE, readable |-> TRUE, obj |-> self]]

\* every saved ticker lacks its tabular scaler file
DiskNoScalers ==
    [DiskFull EXCEPT !.saved = [t \in Tickers |->
                                   [DiskFull.saved[t] EXCEPT !.files = @ \ {"scaler_gbm.pkl"}]]]

\* the metadata file is there but is not JSON
DiskBadMetadata == [DiskFull EXCEPT !.metadata.readable = FALSE]

DiskPickled ==
    pickle_dump(create_advanced_predictor(ApiCsv, DefaultPredictionDays), EmptyDisk)

DiskBadPickle == [EmptyDisk EXCEPT !.pickle = [present |-> TRUE, readable |-> FALSE]]

InitApi ==
    /\ PureIdle
    /\ ret = [op |-> "__init__"]
    /\ predictor = None
    /\ \E module \in ApiModules, csv \in CsvStates :
           api = [module |-> module, pc |-> "startup", serving |-> FALSE, csv |-> csv,
                  prediction_days |-> DefaultPredictionDays, force_retrain |-> FALSE,
                  observed |-> [status |-> "no request yet"],
                  entry |-> None, returned |-> "not called"]
    /\ disk \in (IF api.module = "Model/api.py"
                 THEN {EmptyDisk, DiskFull, DiskPartial, DiskNoScalers, DiskBadMetadata}
                 ELSE {EmptyDisk, DiskPickled, DiskBadPickle})

\* initialize_api returns False before it calls load_or_train_model
Returned_early(a) == [a EXCEPT !.pc = "idle", !.serving = TRUE]

\* load_or_train_model returns value to its caller; the server serves from
\* then on
Returned_to_caller(a, value) ==
    [a EXCEPT !.pc = "idle", !.serving = TRUE, !.returned = value]

\* load_or_train_model is entered; entry keeps the global predictor of that
\* moment
Entered(a) == [a EXCEPT !.pc = "load_or_train_model", !.entry = predictor,
                        !.returned = "running"]

\* initialize_api: False when the CSV is missing, else load_or_train_model(7)
InitializeApi ==
    /\ api.pc = "startup"
    /\ api' = IF api.csv = "missing" THEN Returned_early(api)
              ELSE Entered(api)
    /\ UNCHANGED <<predictor, disk, ret, pure_vars>>

\* Model/api.py: os.path.exists(MODEL_PATH) and not force_retrain and any
\* *_lstm.h5; stockSense-model/api.py: os.path.exists(MODEL_PATH) and not
\* force_retrain
LoadPathTaken ==
    /\ ~api.force_retrain
    /\ IF api.module = "Model/api.py"
       THEN \E t \in DOMAIN disk.saved : "lstm.h5" \in disk.saved[t].files
       ELSE disk.pickle.present

\* Model/api.py line 44: predictor = HybridEnsemblePredictor(...)
LoadConstruct ==
    /\ api.pc = "load_or_train_model"
    /\ api.module = "Model/api.py"
    /\ LoadPathTaken
    /\ predictor' = NewPredictor("HybridEnsemblePredictor", api.prediction_days)
    /\ api' = [api EXCEPT !.pc = "load_models"]
    /\ UNCHANGED <<disk, ret, pure_vars>>

\* predictor.load_models(MODEL_PATH)
LoadModelsStep ==
    /\ api.pc = "load_models"
    /\ predictor' = load_models(predictor, disk.saved)
    /\ api' = [api EXCEPT !.pc = "metadata"]
    /\ UNCHANGED <<disk, ret, pure_vars>>

\* the metadata file, when there is one; json.load raising leaves the load
\* path for the training path
LoadMetadataStep ==
    /\ api.pc = "metadata"
    /\ IF ~disk.metadata.present THEN
           /\ api' = [api EXCEPT !.pc = "load_csv"]
           /\ UNCHANGED predictor
       ELSE IF ~disk.metadata.readable THEN
           /\ api' = [api EXCEPT !.pc = "train"]
           /\ UNCHANGED predictor
       ELSE
           /\ predictor' = [predictor EXCEPT !.feature_cols = disk.metadata.feature_cols]
           /\ api' = [api EXCEPT !.pc = "load_csv"]
    /\ UNCHANGED <<disk, ret, pure_vars>>

\* predictor.load_data(CSV_PATH) inside its own try; then return True
LoadCsvStep ==
    /\ api.pc = "load_csv"
    /\ predictor' = IF CsvReadable(api.csv) THEN load_data(predictor, CsvContent(api.csv))
                    ELSE predictor
    /\ api' = Returned_to_caller(api, "True")
    /\ UNCHANGED <<disk, ret, pure_vars>>

\* stockSense-model/api.py: predictor = pickle.load(f); return True, or the
\* exception that leads to the training path
LoadPickle ==
    /\ api.pc = "load_or_train_model"
    /\ api.module = "stockSense-model/api.py"
    /\ LoadPathTaken
    /\ IF disk.pickle.readable THEN
           /\ predictor' = disk.pickle.obj
           /\ api' = Returned_to_caller(api, "True")
       ELSE
           /\ api' = [api EXCEPT !.pc = "train"]
           /\ UNCHANGED predictor
    /\ UNCHANGED <<disk, ret, pure_vars>>

\* the load path is not taken
SkipLoadPath ==
    /\ api.pc = "load_or_train_model"
    /\ ~LoadPathTaken
    /\ api' = [api EXCEPT !.pc = "train"]
    /\ UNCHANGED <<predictor, disk, ret, pure_vars>>

\* the training path up to the assignment of the new predictor: False when
\* the CSV is missing or creating the predictor raises
TrainCreate ==
    /\ api.pc = "train"
    /\ IF ~CsvReadable(api.csv) THEN
           /\ api' = Returned_to_caller(api, "False")
           /\ UNCHANGED predictor
       ELSE
           /\ predictor' = IF api.module = "Model/api.py"
                           THEN create_hybrid_ensemble(CsvContent(api.csv),
                                                       api.prediction_days)
                           ELSE create_advanced_predictor(CsvContent(api.csv),
                                                          api.prediction_days)
           /\ api' = [api EXCEPT !.pc = "save"]
    /\ UNCHANGED <<disk, ret, pure_vars>>

\* saving the new predictor: True, or False when writing raises
TrainSave ==
    /\ api.pc = "save"
    /\ \E written \in BOOLEAN :
           /\ disk' = IF ~written THEN disk
                      ELSE IF api.module = "Model/api.py" THEN save_models(predictor, disk)
                      ELSE pickle_dump(predictor, disk)
           /\ ret' = [op |-> "save_models", written |-> written]
           /\ api' = Returned_to_caller(api, IF written THEN "True" ELSE "False")
    /\ UNCHANGED <<predictor, pure_vars>>

\* POST /api/train: load_or_train_model(prediction_days, force_retrain=True)
RetrainModels ==
    /\ api.serving
    /\ api.pc = "idle"
    /\ \E prediction_days \in Horizons :
           api' = [Entered(api) EXCEPT !.force_retrain = TRUE,
                                       !.prediction_days = prediction_days]
    /\ UNCHANGED <<predictor, disk, ret, pure_vars>>

\* GET /api/health, answered by another thread of the server
HealthCheck ==
    /\ api.serving
    /\ api' = [api EXCEPT !.observed =
                  IF predictor = None THEN [status |-> "not_ready"]
                  ELSE [status |-> "healthy",
                        models_loaded |-> Cardinality(DOMAIN predictor.models),
                        stocks_available |-> Cardinality(DOMAIN predictor.data_dict),
                        prediction_days |-> predictor.prediction_days]]
    /\ UNCHANGED <<predictor, disk, ret, pure_vars>>

NextApi ==
    \/ InitializeApi
    \/ LoadConstruct
    \/ LoadModelsStep
    \/ LoadMetadataStep
    \/ LoadCsvStep
    \/ LoadPickle
    \/ SkipLoadPath
    \/ TrainCreate
    \/ TrainSave
    \/ RetrainModels
    \/ HealthCheck

SpecApi == InitApi /\ [][NextApi]_vars

----------------------------------------------------------------------------
(***************************************************************************)
(* The pure functions are exercised one call at a time: Init draws the     *)
(* function and its arguments, the function's action computes the result.  *)
(***************************************************************************)

\* volatility grid: 0 .. MaxVolSteps steps of 0.75%
MaxVolSteps == 3

\* predicted returns reach MaxThresholdMult times the buy threshold
MaxThresholdMult == 3

Volatilities == {k * 75 : k \in 0..MaxVolSteps}

\* returns on, just inside and just outside every multiple of the threshold, both signs
ReturnsAround(volatility) ==
    {sgn * (m * buy_threshold(volatility) + d) :
        sgn \in {-1, 1}, m \in 0..MaxThresholdMult, d \in {-1, 0, 1}}

RsiValues == {0, 25, 26, 35, 36, 50, 64, 65, 74, 75, 100}

\* confidences (in ConfUnit) below, on and just above each literal of the code
ConfidenceValues ==
    {0, Pts(15), Pts(20), Pts(25), Pts(38), Pts(38) + 20, Pts(40), Pts(40) + 20,
     Pts(60), Pts(90) + 20, Pts(95), Pts(100)}

SignalCalls(fn) ==
    {[fn |-> fn, predicted_return |-> pr, confidence |-> c, rsi |-> r,
      volatility |-> v, regime |-> g] :
        pr \in UNION {ReturnsAround(w) : w \in Volatilities}, c \in ConfidenceValues,
        r \in RsiValues, v \in Volatilities, g \in Regimes}

R2Values == {-100000, -100, -1, 0, 9, 10, 29, 30, 50, 100, 100000}

SpreadValues == {-100000, -50, 0, 1, 50, 100, 101, 100000}

MetricsValues ==
    {[k \in {"lstm_r2", "lgb_r2", "xgb_r2"} |-> r] : r \in R2Values}
    \cup {[k \in {"lstm_r2", "lgb_r2", "xgb_r2"} |->
              IF k = "lstm_r2" THEN a ELSE IF k = "lgb_r2" THEN b ELSE 0] :
              a \in {-100000, 100000}, b \in {-100, 100000}}
    \cup {[k \in {"lstm_r2", "lgb_r2", "xgb_r2"} |-> r] : r \in {19, 20}}
    \cup {[k \in {"lgb_mae"} |-> 0]}

EnsembleConfidenceCalls ==
    {[fn |-> "calculate_confidence_ensemble", predicted_return |-> pr, volatility |-> v,
      rsi |-> r, regime |-> g, ensemble_spread |-> s, metrics |-> m] :
        pr \in {-20000, 0, 20000}, v \in {0, 49, 50, 149, 150, 299, 300, 100000},
        r \in {10, 50},
        g \in Regimes, s \in SpreadValues, m \in MetricsValues}

ConfidenceCalls ==
    {[fn |-> "calculate_confidence", r2 |-> a, mape |-> m, predicted_return |-> pr,
      volatility |-> v, rsi |-> r, regime |-> g] :
        a \in R2Values, m \in {0, 1, 4, 9, 14, 24, 25, 100000},
        pr \in {-1000000, -10000, -299, 0, 1999, 4999, 1000000},
        v \in {0, 149, 499, 100000}, r \in {0, 19, 50, 81}, g \in Regimes}

\* sub-model forecasts in hundredths: equal and unequal ones, with a
\* positive, zero and negative mean
ForecastValues == {-150, -100, 0, 100, 150, 250}

SpreadCalls ==
    {[fn |-> "ensemble_spread", lstm_pred |-> a, lgb_pred |-> b, xgb_pred |-> c] :
        a \in ForecastValues, b \in ForecastValues, c \in ForecastValues}

\* The indicator engine on a price table, row by row.  A row is
\* [High, Low, Close] in whole price units; indicator values are in
\* hundredths of a point.  The 1e-10 added to a denominator decides the value
\* only where the denominator is otherwise zero.
Percent(n) == n * 100

MaxBars == 3

\* the windows the engine uses (5, 14 and 21 for RSI, 14 for the others), and
\* a window of 2 that fills up within MaxBars rows
Periods == {2, 5, 14, 21}

ClosePrices == {1, 2, 3}

\* rows with High >= Low and a positive Close, inside the day's range or not
OhlcRows ==
    {r \in [High : {1, 3, 4}, Low : {1, 3, 4}, Close : {1, 4}] : r.High >= r.Low}

PriceSeries == UNION {[1..n -> ClosePrices] : n \in 1..MaxBars}

OhlcSeries == UNION {[1..n -> OhlcRows] : n \in 1..MaxBars}

IndicatorCalls ==
    {[fn |-> f, prices |-> p, period |-> k] :
        f \in {"calculate_rsi", "calculate_stochastic"}, p \in PriceSeries, k \in Periods}
    \cup {[fn |-> "calculate_adx", df |-> d, period |-> k] :
            d \in OhlcSeries, k \in {2, 14}}

\* rolling(window=period, min_periods=1) at row i
Window(i, period) == Max(1, i - period + 1)..i

RECURSIVE SumAt(_, _)
SumAt(s, rows) ==
    IF rows = {} THEN 0
    ELSE LET i == CHOOSE r \in rows : TRUE
         IN  s[i] + SumAt(s, rows \ {i})

\* delta.where(delta > 0, 0): the first delta is NaN and becomes 0
Gain(prices, i) ==
    IF i > 1 /\ prices[i] > prices[i - 1] THEN prices[i] - prices[i - 1] ELSE 0

\* -delta.where(delta < 0, 0)
Loss(prices, i) ==
    IF i > 1 /\ prices[i] < prices[i - 1] THEN prices[i - 1] - prices[i] ELSE 0

\* calculate_rsi (the same in both classes): 100 - 100 / (1 + rs) with
\* rs = gain / (loss + 1e-10), which is 100 * gain / (gain + loss); no value
\* is NaN, so fillna(50) changes nothing
calculate_rsi(prices, period) ==
    [i \in DOMAIN prices |->
        LET gain == SumAt([j \in DOMAIN prices |-> Gain(prices, j)], Window(i, period))
            loss == SumAt([j \in DOMAIN prices |-> Loss(prices, j)], Window(i, period))
        IN  IF gain = 0 THEN 0 ELSE (Percent(100) * gain) \div (gain + loss)]

LowestIn(prices, rows) == CHOOSE x \in {prices[j] : j \in rows} :
                              \A y \in {prices[j] : j \in rows} : x <= y

HighestIn(prices, rows) == CHOOSE x \in {prices[j] : j \in rows} :
                               \A y \in {prices[j] : j \in rows} : y <= x

\* %K of calculate_stochastic
StochK(prices, period) ==
    [i \in DOMAIN prices |->
        LET lowest_low == LowestIn(prices, Window(i, period))
            highest_high == HighestIn(prices, Window(i, period))
        IN  IF highest_high = lowest_low THEN 0
            ELSE (Percent(100) * (prices[i] - lowest_low)) \div (highest_high - lowest_low)]

\* calculate_stochastic (the same in both classes)
calculate_stochastic(prices, period) ==
    LET k == StochK(prices, period)
    IN  [k |-> k,
         d |-> [i \in DOMAIN prices |->
                    SumAt(k, Window(i, 3)) \div Cardinality(Window(i, 3))]]

\* a directional movement that is taken whatever its sign
plus_dm_any_sign(df, i) ==
    IF i > 1 /\ df[i].High - df[i - 1].High > df[i - 1].Low - df[i].Low
    THEN df[i].High - df[i - 1].High ELSE 0

\* np.where((high_diff > low_diff) & (high_diff > 0), high_diff, 0)
plus_dm(df, i) ==
    IF /\ i > 1
       /\ df[i].High - df[i - 1].High > df[i - 1].Low - df[i].Low
       /\ df[i].High - df[i - 1].High > 0
    THEN df[i].High - df[i - 1].High ELSE 0

\* np.where((low_diff > high_diff) & (low_diff > 0), low_diff, 0)
minus_dm(df, i) ==
    IF /\ i > 1
       /\ df[i - 1].Low - df[i].Low > df[i].High - df[i - 1].High
       /\ df[i - 1].Low - df[i].Low > 0
    THEN df[i - 1].Low - df[i].Low ELSE 0

\* 100 * |plus_di - minus_di| / (plus_di + minus_di + 1e-10): both DI are the
\* window sums of the movements over the same ATR, which cancels
Dx(df, period) ==
    [i \in DOMAIN df |->
        LET plus == SumAt([j \in DOMAIN df |-> plus_dm(df, j)], Window(i, period))
            minus == SumAt([j \in DOMAIN df |-> minus_dm(df, j)], Window(i, period))
        IN  IF plus + minus = 0 THEN 0
            ELSE (Percent(100) * Abs(plus - minus)) \div (plus + minus)]

\* calculate_adx (the same in both classes)
calculate_adx(df, period) ==
    LET dx == Dx(df, period)
    IN  [i \in DOMAIN df |->
            SumAt(dx, Window(i, period)) \div Cardinality(Window(i, period))]

\* detect_market_regime(df, window=252) on a close-price series
RegimeWindow == 252

\* short series of any shape for short windows, and for the window of 252
\* series that hold one price on their first rows and another afterwards
RegimePrices == {89, 90, 100, 110, 111}

StepSeries(n, k, a, b) == [i \in 1..n |-> IF i <= k THEN a ELSE b]

RegimeCalls ==
    {[fn |-> "detect_market_regime", prices |-> p, window |-> w] :
        p \in UNION {[1..n -> {90, 100, 110}] : n \in 1..MaxBars}, w \in {1, 2}}
    \cup {[fn |-> "detect_market_regime",
           prices |-> StepSeries(RegimeWindow + n, k, a, b), window |-> RegimeWindow] :
            n \in 0..2, k \in 1..2, a \in RegimePrices, b \in RegimePrices}

\* Close.pct_change(window) > 0.1: the doubles now / before - 1 and 0.1 are
\* compared, and for a quotient of exactly 1.1 the difference is
\* 0.10000000000000009, which is above the double 0.1
AnnualReturnBull(now, before) == 10 * now >= 11 * before

\* Close.pct_change(window) < -0.1: for a quotient of exactly 0.9 the
\* difference is -0.09999999999999998, which is not below the double -0.1
AnnualReturnBear(now, before) == 10 * now < 9 * before

\* detect_market_regime (the same in both classes): it works on df.copy(), so
\* the frame passed in is returned to the caller as it was given
detect_market_regime(prices, window) ==
    [df |-> prices,
     Regime |-> [i \in DOMAIN prices |->
                    \* pct_change(window) is NaN on the first window rows: fillna(0)
                    IF i <= window THEN "Sideways"
                    ELSE IF AnnualReturnBull(prices[i], prices[i - window]) THEN "Bull"
                    ELSE IF AnnualReturnBear(prices[i], prices[i - window]) THEN "Bear"
                    ELSE "Sideways"]]

\* The sequence windows, row by row.  Prices are whole units, scaled prices
\* thousandths; the window length is the constructor's lstm_sequence_length,
\* drawn short enough for a series of MaxSeqBars bars to hold several windows.
MaxSeqBars == 5

SeqLengths == {1, 2, 3}

SeqSeries == UNION {[1..n -> ClosePrices] : n \in 1..MaxSeqBars}

\* MinMaxScaler fitted on a series
MinMaxOf(prices) ==
    [lo |-> LowestIn(prices, DOMAIN prices), hi |-> HighestIn(prices, DOMAIN prices)]

StoredScalers == {[lo |-> 1, hi |-> 3], [lo |-> 2, hi |-> 2], [lo |-> 1, hi |-> 2]}

SequenceCalls ==
    {[fn |-> "prepare_lstm_sequences", prices |-> p, sequence_length |-> l] :
        p \in SeqSeries, l \in SeqLengths}
    \cup {[fn |-> "lstm_input", prices |-> p, sequence_length |-> l, scaler |-> s] :
            p \in SeqSeries, l \in SeqLengths, s \in StoredScalers}

\* MinMaxScaler.transform: (x - min) / (max - min), a zero range counting as 1
MinMaxTransform(scaler, prices) ==
    [i \in DOMAIN prices |->
        ((prices[i] - scaler.lo) * 1000)
            \div (IF scaler.hi = scaler.lo THEN 1 ELSE scaler.hi - scaler.lo)]

\* a window that starts one position late
WindowAtShifted(scaled, i, l) == SubSeq(scaled, i + 1, i + l)

\* prices_scaled[i:i+L], with positions counted from 1
WindowAt(scaled, i, l) == SubSeq(scaled, i, i + l - 1)

\* the loop of prepare_lstm_sequences over range(len(prices_scaled) - L), for
\* prices scaled by a scaler fitted on them
prepare_lstm_sequences_rows(prices, l) ==
    LET prices_scaled == MinMaxTransform(MinMaxOf(prices), prices)
        count == Max(0, Len(prices) - l)
    IN  [X |-> [i \in 1..count |-> WindowAt(prices_scaled, i, l)],
         y |-> [i \in 1..count |-> prices_scaled[i + l]]]

\* df['Close'].tail(n)
TailOf(prices, n) == SubSeq(prices, Max(1, Len(prices) - n + 1), Len(prices))

\* the input of the sequence model in predict: tail(L), the stored scaler's
\* transform, reshape(1, L, 1), which raises unless there are L prices
lstm_input(prices, l, scaler) ==
    LET lstm_prices_scaled == MinMaxTransform(scaler, TailOf(prices, l))
    IN  IF Len(lstm_prices_scaled) # l
        THEN [status |-> "raised", error |-> "cannot reshape"]
        ELSE [status |-> "returned", value |-> <<lstm_prices_scaled>>]

\* the scorer's arguments as predict passes them on to the signal generator
ScoreReturns == {-20000, -1500, 0, 1500, 20000}

ScoreCalls ==
    {[fn |-> "score_and_signal", predicted_return |-> pr, volatility |-> v,
      rsi |-> r, regime |-> g, ensemble_spread |-> s, metrics |-> m] :
        pr \in ScoreReturns, v \in {0, 300}, r \in {10, 50, 80},
        g \in Regimes, s \in {0, 50, 100}, m \in MetricsValues}
    \cup
    {[fn |-> "kse_score_and_signal", r2 |-> a, mape |-> m, predicted_return |-> pr,
      volatility |-> v, rsi |-> r, regime |-> g] :
        a \in R2Values, m \in {0, 24, 100000}, pr \in ScoreReturns,
        v \in {0, 499}, r \in {10, 50, 81}, g \in Regimes}

\* HybridEnsemblePredictor.predict from the scorer on: the confidence goes
\* through generate_signal, and the record keeps the signal's action and
\* round(signal['confidence'], 2) (in hundredths of a point)
score_and_signal(predicted_return, volatility, rsi, regime, ensemble_spread, metrics) ==
    LET confidence == calculate_confidence_ensemble(predicted_return, volatility, rsi,
                                                    regime, ensemble_spread, metrics)
        signal == generate_signal(predicted_return, confidence, rsi, volatility, regime)
    IN  [signal |-> signal.action,
         confidence |-> RoundConfidence(signal.confidence),
         scored |-> confidence]

\* KSEStockPredictor.predict from the scorer on
kse_score_and_signal(r2, mape, predicted_return, volatility, rsi, regime) ==
    LET confidence == calculate_confidence(r2, mape, predicted_return, volatility,
                                           rsi, regime)
        signal == kse_generate_signal(predicted_return, confidence, rsi, volatility,
                                      regime)
    IN  [signal |-> signal.action,
         confidence |-> RoundConfidence(signal.confidence),
         scored |-> confidence]

Pending == [status |-> "pending"]

Returned(v) == [status |-> "returned", value |-> v]

(* The input table of load_data, row by row: Date is the parsed date, Ticker
   the symbol, Close the payload of the row (here its position in the file,
   so that repeated (Date, Ticker) pairs stay distinguishable). *)
MaxRows == 3

MaxDate == 2

TableRows(n) == [1..n -> (1..MaxDate) \X Tickers]

Table(cells) ==
    [i \in DOMAIN cells |-> [Date |-> cells[i][1], Ticker |-> cells[i][2], Close |-> i]]

Tables == UNION {{Table(cells) : cells \in TableRows(n)} : n \in 0..MaxRows}

LoadDataCalls == {[fn |-> "load_data", table |-> tb] : tb \in Tables}

SamePair(a, b) == a.Date = b.Date /\ a.Ticker = b.Ticker

drop_duplicates_keep_last(df) ==
    SelectSeq([i \in DOMAIN df |-> [row |-> df[i],
                                    keep |-> \A j \in (i + 1)..Len(df) : ~SamePair(df[j], df[i])]],
              LAMBDA e : e.keep)

drop_duplicates(df) ==
    SelectSeq([i \in DOMAIN df |-> [row |-> df[i],
                                    keep |-> \A j \in 1..(i - 1) : ~SamePair(df[j], df[i])]],
              LAMBDA e : e.keep)

Rows(marked) == [i \in DOMAIN marked |-> marked[i].row]

RECURSIVE InsertByDate(_, _)
InsertByDate(sorted, row) ==
    IF sorted = <<>> THEN <<row>>
    ELSE IF Head(sorted).Date <= row.Date
         THEN <<Head(sorted)>> \o InsertByDate(Tail(sorted), row)
         ELSE <<row>> \o sorted

RECURSIVE sort_values(_)
sort_values(df) ==
    IF df = <<>> THEN <<>>
    ELSE InsertByDate(sort_values(SubSeq(df, 1, Len(df) - 1)), df[Len(df)])

TickersOf(df) == {df[i].Ticker : i \in DOMAIN df}

(* load_data on a fresh predictor.  A table without rows makes the date-range
   report fail (strftime of NaT) before anything is stored. *)
load_data_table(table) ==
    IF table = <<>> THEN [status |-> "raised", error |-> "NaT"]
    ELSE LET df_all == sort_values(Rows(drop_duplicates(table)))
         IN Returned([t \in TickersOf(df_all) |->
                sort_values(SelectSeq(df_all, LAMBDA row : row.Ticker = t))])

InitPure ==
    /\ \/ call \in SignalCalls("generate_signal")
       \/ call \in SignalCalls("kse_generate_signal")
       \/ call \in EnsembleConfidenceCalls
       \/ call \in ConfidenceCalls
       \/ call \in LoadDataCalls
       \/ call \in SpreadCalls
       \/ call \in IndicatorCalls
       \/ call \in RegimeCalls
       \/ call \in SequenceCalls
       \/ call \in ScoreCalls
    /\ result = Pending
    /\ PredictorIdle
    /\ ApiIdle

CallGenerateSignal ==
    /\ call.fn = "generate_signal"
    /\ result = Pending
    /\ result' = Returned(generate_signal(call.predicted_return, call.confidence,
                                          call.rsi, call.volatility, call.regime))
    /\ UNCHANGED <<call, predictor_vars, api_vars>>

CallKseGenerateSignal ==
    /\ call.fn = "kse_generate_signal"
    /\ result = Pending
    /\ result' = Returned(kse_generate_signal(call.predicted_return, call.confidence,
                                              call.rsi, call.volatility, call.regime))
    /\ UNCHANGED <<call, predictor_vars, api_vars>>

CallConfidenceEnsemble ==
    /\ call.fn = "calculate_confidence_ensemble"
    /\ result = Pending
    /\ result' = Returned(calculate_confidence_ensemble(
                              call.predicted_return, call.volatility, call.rsi,
                              call.regime, call.ensemble_spread, call.metrics))
    /\ UNCHANGED <<call, predictor_vars, api_vars>>

CallConfidence ==
    /\ call.fn = "calculate_confidence"
    /\ result = Pending
    /\ result' = Returned(calculate_confidence(call.r2, call.mape, call.predicted_return,
                                               call.volatility, call.rsi, call.regime))
    /\ UNCHANGED <<call, predictor_vars, api_vars>>

CallLoadData ==
    /\ call.fn = "load_data"
    /\ result = Pending
    /\ result' = load_data_table(call.table)
    /\ UNCHANGED <<call, predictor_vars, api_vars>>

\* what predict derives from its three forecasts: the spread, the boost that
\* calculate_confidence_ensemble adds for it, and the reported agreement
CallEnsembleSpread ==
    /\ call.fn = "ensemble_spread"
    /\ result = Pending
    /\ LET ensemble_spread == EnsembleSpread(call.lstm_pred, call.lgb_pred, call.xgb_pred)
       IN  result' = Returned([ensemble_spread |-> ensemble_spread,
                               agreement_boost |-> agreement_boost(ensemble_spread),
                               ensemble_agreement |-> ensemble_agreement(ensemble_spread)])
    /\ UNCHANGED <<call, predictor_vars, api_vars>>

CallRsi ==
    /\ call.fn = "calculate_rsi"
    /\ result = Pending
    /\ result' = Returned(calculate_rsi(call.prices, call.period))
    /\ UNCHANGED <<call, predictor_vars, api_vars>>

CallStochastic ==
    /\ call.fn = "calculate_stochastic"
    /\ result = Pending
    /\ result' = Returned(calculate_stochastic(call.prices, call.period))
    /\ UNCHANGED <<call, predictor_vars, api_vars>>

CallAdx ==
    /\ call.fn = "calculate_adx"
    /\ result = Pending
    /\ result' = Returned(calculate_adx(call.df, call.period))
    /\ UNCHANGED <<call, predictor_vars, api_vars>>

CallDetectMarketRegime ==
    /\ call.fn = "detect_market_regime"
    /\ result = Pending
    /\ result' = Returned(detect_market_regime(call.prices, call.window))
    /\ UNCHANGED <<call, predictor_vars, api_vars>>

CallPrepareLstmSequences ==
    /\ call.fn = "prepare_lstm_sequences"
    /\ result = Pending
    /\ result' = Returned(prepare_lstm_sequences_rows(call.prices, call.sequence_length))
    /\ UNCHANGED <<call, predictor_vars, api_vars>>

CallLstmInput ==
    /\ call.fn = "lstm_input"
    /\ result = Pending
    /\ result' = lstm_input(call.prices, call.sequence_length, call.scaler)
    /\ UNCHANGED <<call, predictor_vars, api_vars>>

CallScoreAndSignal ==
    /\ call.fn = "score_and_signal"
    /\ result = Pending
    /\ result' = Returned(score_and_signal(call.predicted_return, call.volatility,
                                           call.rsi, call.regime, call.ensemble_spread,
                                           call.metrics))
    /\ UNCHANGED <<call, predictor_vars, api_vars>>

CallKseScoreAndSignal ==
    /\ call.fn = "kse_score_and_signal"
    /\ result = Pending
    /\ result' = Returned(kse_score_and_signal(call.r2, call.mape, call.predicted_return,
                                               call.volatility, call.rsi, call.regime))
    /\ UNCHANGED <<call, predictor_vars, api_vars>>

NextPure ==
    \/ CallGenerateSignal
    \/ CallKseGenerateSignal
    \/ CallConfidenceEnsemble
    \/ CallConfidence
    \/ CallLoadData
    \/ CallEnsembleSpread
    \/ CallRsi
    \/ CallStochastic
    \/ CallAdx
    \/ CallDetectMarketRegime
    \/ CallPrepareLstmSequences
    \/ CallLstmInput
    \/ CallScoreAndSignal
    \/ CallKseScoreAndSignal

SpecPure == InitPure /\ [][NextPure]_vars

----------------------------------------------------------------------------
(***************************************************************************)
(* Properties of the pure functions (checked under SpecPure).              *)
(***************************************************************************)

Ran(fn) == call.fn = fn /\ result.status = "returned"

\* the threshold as the specification words it: 1.2 + 0.4 * (volatility * 100)
StatedThreshold(volatility) == 1200 + 4 * volatility

BuyEligible ==
    LET t == StatedThreshold(call.volatility)
    IN  /\ call.predicted_return > t
        /\ call.confidence > Pts(40)
        /\ call.rsi < (IF call.predicted_return > 2 * t THEN 75 ELSE 65)

SellEligible ==
    LET t == StatedThreshold(call.volatility)
    IN  /\ call.predicted_return < -t
        /\ call.confidence > Pts(40)
        /\ call.rsi > (IF call.predicted_return < -(2 * t) THEN 25 ELSE 35)

\* C1: the ensemble generate_signal answers BUY exactly when the return exceeds
\* the volatility-scaled threshold, the confidence exceeds 40 and the RSI is
\* under its ceiling (75 for a return beyond twice the threshold, 65 otherwise),
\* SELL exactly on the mirror condition, HOLD otherwise; the two conditions
\* never hold together.
C1_SignalIffEligible ==
    Ran("generate_signal") =>
        /\ (result.value.action = "BUY") <=> BuyEligible
        /\ (result.value.action = "SELL") <=> SellEligible
        /\ (~BuyEligible /\ ~SellEligible) => result.value.action = "HOLD"
        /\ ~(BuyEligible /\ SellEligible)
        /\ result.value.action \in {"BUY", "SELL", "HOLD"}

\* a strong BUY whose RSI lies between the two ceilings
C1_Witness ==
    /\ Ran("generate_signal")
    /\ result.value.action = "BUY"
    /\ call.rsi >= 65
    /\ call.volatility > 0

\* C2: calculate_confidence_ensemble returns a value in [25,95] and the
\* tabular calculate_confidence a value in [20,95], whatever the inputs.
C2_ConfidenceClamped ==
    /\ Ran("calculate_confidence_ensemble") =>
           result.value >= Pts(25) /\ result.value <= Pts(95)
    /\ Ran("calculate_confidence") =>
           result.value >= Pts(20) /\ result.value <= Pts(95)

\* both clamps bite: the ensemble scorer is held up at 25 on inputs whose raw
\* score is far below it
C2_Witness ==
    /\ Ran("calculate_confidence_ensemble")
    /\ result.value = Pts(25)
    /\ call.ensemble_spread > 100
    /\ call.volatility >= 300


----------------------------------------------------------------------------
(***************************************************************************)
(* Claims about the predictor object, checked under Spec.                  *)
(***************************************************************************)

\* the series stored for the ticker of the last call
RetSeries == predictor.data_dict[ret.ticker]

\* C3: predict_all returns exactly one entry for every key of models,
\* visited in sorted order; the entry is the record predict(symbol) returns
\* when it succeeds and {ticker, error} when it raises, so that one failing
\* symbol neither escapes predict_all nor stops the symbols after it.
C3_PredictAllCoversEveryModel ==
    ret.op = "predict_all" =>
        /\ DOMAIN ret.predictions = DOMAIN predictor.models
        /\ ret.visited = SortedSeq(DOMAIN predictor.models)
        /\ \A t \in DOMAIN predictor.models :
               LET out == class_predict(predictor, t)
               IN  ret.predictions[t] =
                       IF out.raised = "none" THEN out.value
                       ELSE [ticker |-> t, error |-> out.raised]

\* a batch in which a symbol fails and a symbol sorted after it is predicted
C3_Witness ==
    /\ ret.op = "predict_all"
    /\ \E t1, t2 \in DOMAIN ret.predictions :
           /\ t1 < t2
           /\ "error" \in DOMAIN ret.predictions[t1]
           /\ "signal" \in DOMAIN ret.predictions[t2]

\* C4: predict(symbol) called again right after predict(symbol), nothing
\* loaded or trained in between, gives the same record or the same error.
C4_PredictIdempotent ==
    ret.op = "predict" =>
        LET again == class_predict(predictor, ret.ticker)
        IN  /\ again.raised = ret.raised
            /\ again.value = ret.value

\* a successful predict of either class whose repeat succeeds too
C4_Witness ==
    /\ ret.op = "predict"
    /\ ret.raised = "none"
    /\ class_predict(predictor, ret.ticker).raised = "none"
    /\ class_predict(predictor, ret.ticker).self = predictor

InferenceOps == {"predict", "predict_all", "prepare_features", "prepare_lstm_sequences"}

\* C5: predict and the helpers in inference mode (fit_scaler=False) leave
\* the stored tabular scalers, sequence scalers, model bundles and series
\* of every symbol unchanged, and no scaler is fitted on inference data.
C5_InferenceLeavesFittedState ==
    [][ret'.op \in InferenceOps =>
          /\ predictor'.scalers = predictor.scalers
          /\ predictor'.lstm_scalers = predictor.lstm_scalers
          /\ predictor'.models = predictor.models
          /\ predictor'.data_dict = predictor.data_dict
          /\ (ret'.op = "prepare_lstm_sequences" =>
                  ret'.scaled_by # "fitted on the call's data")]_vars

\* C6: predict and prepare_features in inference mode do not change the
\* feature-column list derived at training or restored from the metadata;
\* a list that cannot be reproduced makes the call fail, the list kept.
C6_FeatureColsKeptByInference ==
    [][(ret'.op \in {"predict", "prepare_features"} /\ predictor.feature_cols # << >>) =>
          predictor'.feature_cols = predictor.feature_cols]_vars

\* C7: with N bars stored, the feature row given to the tree models is that
\* of bar N-1, the bar of current_price and of current_date.
C7_FeatureRowIsLatestBar ==
    (ret.op = "predict" /\ ret.raised = "none") =>
        /\ ret.trace.feature_row = RetSeries.n - 1
        /\ ret.trace.price_bar = RetSeries.n - 1
        /\ ret.trace.date_bar = ret.trace.price_bar

\* C9: train_all_models attempts every loaded symbol in sorted order; a
\* symbol whose training raises ends with no model entry, the symbols
\* trained in the batch hold the model of their loaded series, and
\* trained + failed is the number of loaded symbols.
C9_BatchTrainingIsolatesFailures ==
    (ret.op = "train_all_models" /\ ret.raised = "none") =>
        /\ ret.attempted = SortedSeq(DOMAIN predictor.data_dict)
        /\ ret.trained + ret.failed = Cardinality(DOMAIN predictor.data_dict)
        /\ \A t \in ret.failures : t \notin DOMAIN predictor.models
        /\ \A t \in DOMAIN predictor.data_dict \ ret.failures :
               /\ t \in DOMAIN predictor.models
               /\ predictor.models[t].model.trained_on = predictor.data_dict[t].id

\* C10: the stored model of a symbol is always paired with the scaler
\* fitted in the training run that produced it.
C10_ModelPairedWithItsScaler ==
    IsTabular =>
        \A t \in DOMAIN predictor.models :
            /\ t \in DOMAIN predictor.scalers
            /\ predictor.scalers[t].fit_on = predictor.models[t].model.trained_on
            /\ predictor.scalers[t].cols = predictor.models[t].model.cols

----------------------------------------------------------------------------
(***************************************************************************)
(* Claims about the API processes, checked under SpecApi.                  *)
(***************************************************************************)

\* C8: no request ever sees a half-built global predictor: what a reader
\* gets is None or a predictor whose models and historical data are both
\* there, during load_or_train_model and after it, failures included.
C8_ReaderNeverSeesHalfBuilt ==
    api.observed.status = "healthy" =>
        /\ api.observed.models_loaded > 0
        /\ api.observed.stocks_available > 0

----------------------------------------------------------------------------
(***************************************************************************)
(* Further claims about the predictor object, checked under Spec.          *)
(***************************************************************************)

\* the last call was predict on a ticker that has a stored series
PredictedOnSeries == ret.op = "predict" /\ ret.ticker \in DOMAIN predictor.data_dict

\* C11: predict raises, and returns no record, whenever the stored series
\* is too short for either path: fewer than lstm_sequence_length bars for
\* the sequence window (ensemble), or no row left after the warm-up and
\* target-shift rows are dropped (both classes).
C11_ShortHistoryRaises ==
    (/\ PredictedOnSeries
     /\ \/ IsEnsemble /\ RetSeries.n < lstm_sequence_length
        \/ ValidRows(RetSeries, predictor.prediction_days) = 0) =>
        /\ ret.raised # "none"
        /\ "signal" \notin DOMAIN ret.value

\* an ensemble with a bundle for the ticker and a series that has tabular
\* rows but fewer bars than the sequence window
C11_Witness ==
    /\ PredictedOnSeries
    /\ IsEnsemble
    /\ ret.ticker \in DOMAIN predictor.models
    /\ RetSeries.n < lstm_sequence_length
    /\ ValidRows(RetSeries, predictor.prediction_days) > 0
    /\ ret.raised = "cannot reshape"

\* C12: inference for a symbol never trained raises on both
\* representations instead of fitting a scaler on the inference data:
\* prepare_features and prepare_lstm_sequences with fit_scaler=False and no
\* stored scaler, and predict without a bundle.
C12_UntrainedInferenceRaises ==
    /\ (ret.op = "prepare_features" /\ ret.ticker \notin DOMAIN predictor.scalers) =>
           ret.raised # "none"
    /\ (ret.op = "prepare_lstm_sequences" /\ ret.ticker \notin DOMAIN predictor.lstm_scalers) =>
           ret.scaled_by # "fitted on the call's data"
    /\ (ret.op = "predict" /\ ret.ticker \notin DOMAIN predictor.models) =>
           ret.raised # "none"

\* what predict_all gives for the object as it stands
AllPreds == class_predict_all(predictor).predictions

\* the trained symbols whose prediction succeeds with the given signal
SymbolsWithSignal(signal) ==
    {t \in DOMAIN AllPreds : "error" \notin DOMAIN AllPreds[t] /\ AllPreds[t].signal = signal}

\* a list holds only successful records of the signal, each symbol once,
\* by non-increasing confidence, and they are the top_n most confident
TopOfSignal(list, signal, top_n) ==
    /\ \A i \in 1..Len(list) :
           /\ "error" \notin DOMAIN list[i]
           /\ list[i].signal = signal
           /\ list[i].ticker \in SymbolsWithSignal(signal)
           /\ list[i] = AllPreds[list[i].ticker]
    /\ \A i, j \in 1..Len(list) :
           i < j => /\ list[i].confidence >= list[j].confidence
                    /\ list[i].ticker # list[j].ticker
    /\ Len(list) = Min(top_n, Cardinality(SymbolsWithSignal(signal)))
    /\ \A t \in SymbolsWithSignal(signal) \ {list[i].ticker : i \in 1..Len(list)} :
           \A i \in 1..Len(list) : list[i].confidence >= AllPreds[t].confidence

\* C13: get_top_recommendations(n) returns top_buys with only successful
\* BUY records and top_sells with only successful SELL records, each sorted
\* by non-increasing confidence, at most n long, and made of the n most
\* confident records of its kind among the trained symbols.
C13_TopRecommendations ==
    ret.op = "get_top_recommendations" =>
        /\ TopOfSignal(ret.value.top_buys, "BUY", ret.top_n)
        /\ TopOfSignal(ret.value.top_sells, "SELL", ret.top_n)

\* two BUY records of different confidence, the more confident one from
\* the symbol predicted last, and only one asked for
C13_Witness ==
    /\ ret.op = "get_top_recommendations"
    /\ ret.top_n = 1
    /\ Cardinality(SymbolsWithSignal("BUY")) >= 2
    /\ Len(ret.value.top_buys) = 1
    /\ \E t \in SymbolsWithSignal("BUY") :
           /\ t < ret.value.top_buys[1].ticker
           /\ AllPreds[t].confidence < ret.value.top_buys[1].confidence

----------------------------------------------------------------------------
(***************************************************************************)
(* Further claims about the API processes, checked under SpecApi.          *)
(***************************************************************************)

\* load_models of the model directory into a new predictor of the same
\* horizon, with the served series loaded
Reloaded ==
    [load_models(NewPredictor("HybridEnsemblePredictor", predictor.prediction_days),
                 disk.saved) EXCEPT !.data_dict = predictor.data_dict]

\* C14: save_models followed by load_models into a fresh predictor gives
\* exactly the symbols that were saved, each with the same three
\* sub-models, scalers, metrics and weights, and the same predictions.
C14_SaveLoadRoundTrip ==
    (/\ api.module = "Model/api.py"
     /\ api.pc = "idle"
     /\ ret.op = "save_models"
     /\ ret.written) =>
        /\ DOMAIN Reloaded.models = DOMAIN predictor.models
        /\ Reloaded.models = predictor.models
        /\ Reloaded.scalers = predictor.scalers
        /\ Reloaded.lstm_scalers = predictor.lstm_scalers
        /\ \A t \in DOMAIN predictor.models :
               predict(Reloaded, t).value = predict(predictor, t).value

(* ------------------------------------------------------------------ *)
(* Claims about the data loader and the indicators, checked under      *)
(* SpecPure.                                                           *)
(* ------------------------------------------------------------------ *)

LoadDataReturned == call.fn = "load_data" /\ result.status = "returned"

FirstOccurrence(table, d, t) ==
    table[CHOOSE i \in DOMAIN table :
              /\ table[i].Date = d /\ table[i].Ticker = t
              /\ \A j \in 1..(i - 1) : ~(table[j].Date = d /\ table[j].Ticker = t)]

DatesOf(table, t) == {table[i].Date : i \in {j \in DOMAIN table : table[j].Ticker = t}}

(* C15: after load_data on any input table (any row order, repeated
   (date, ticker) pairs) there is one stored series per symbol of the table,
   and every stored series is strictly increasing by date, holds only rows of
   its symbol, and holds for each distinct date of that symbol exactly the
   first occurrence of the pair in the input. *)
C15_LoadDataSeriesSortedUnique ==
    LoadDataReturned =>
        LET table == call.table
            data_dict == result.value
        IN /\ DOMAIN data_dict = {table[i].Ticker : i \in DOMAIN table}
           /\ \A t \in DOMAIN data_dict :
                LET s == data_dict[t]
                IN /\ \A i \in 1..(Len(s) - 1) : s[i].Date < s[i + 1].Date
                   /\ \A i \in DOMAIN s : s[i].Ticker = t
                   /\ {s[i].Date : i \in DOMAIN s} = DatesOf(table, t)
                   /\ \A i \in DOMAIN s : s[i] = FirstOccurrence(table, s[i].Date, t)

(* A table whose first row is repeated later and whose dates arrive out of
   order, loaded. *)
C15_Witness ==
    /\ LoadDataReturned
    /\ Len(call.table) = MaxRows
    /\ SamePair(call.table[1], call.table[MaxRows])
    /\ call.table[2].Ticker = call.table[1].Ticker
    /\ call.table[2].Date < call.table[1].Date
    /\ Len(result.value[call.table[1].Ticker]) = 2

SpreadReturned == call.fn = "ensemble_spread" /\ result.status = "returned"

CallForecasts == {call.lstm_pred, call.lgb_pred, call.xgb_pred}

CallForecastSum == call.lstm_pred + call.lgb_pred + call.xgb_pred

CallForecastRange ==
    (CHOOSE x \in CallForecasts : \A y \in CallForecasts : y <= x)
    - (CHOOSE x \in CallForecasts : \A y \in CallForecasts : x <= y)

\* min(spread, 1) in hundredths, spread = (max - min) / (mean + eps): with a
\* zero mean the eps alone divides the range
StatedCappedSpread ==
    IF CallForecastSum = 0 THEN (IF CallForecastRange = 0 THEN 0 ELSE 100)
    ELSE IF (300 * CallForecastRange) \div CallForecastSum < 100
         THEN (300 * CallForecastRange) \div CallForecastSum
         ELSE 100

\* C16: the ensemble_agreement reported for three sub-model forecasts is
\* 100 * (1 - min(spread, 1)) with spread = (max - min) / (mean + eps); when
\* the three forecasts are equal it is exactly 100.
C16_AgreementIsInverseOfSpread ==
    SpreadReturned =>
        /\ result.value.ensemble_agreement = 100 - StatedCappedSpread
        /\ Cardinality(CallForecasts) = 1 => result.value.ensemble_agreement = 100

\* three equal forecasts with a positive mean, agreement 100
C16_Witness ==
    /\ SpreadReturned
    /\ Cardinality(CallForecasts) = 1
    /\ CallForecastSum > 0
    /\ result.value.ensemble_agreement = 100

\* forecasts that disagree by more than their mean, agreement 0
C16_WitnessCapped ==
    /\ SpreadReturned
    /\ CallForecastSum > 0
    /\ 300 * CallForecastRange > 100 * CallForecastSum
    /\ result.value.ensemble_agreement = 0

\* C19: wherever the spread is used it is clamped to [0, 1]: for any three
\* forecasts, a zero or negative mean included, the agreement boost lies in
\* [0, 20] and the reported ensemble_agreement in [0, 100].
C19_SpreadClampedBothSides ==
    SpreadReturned =>
        /\ result.value.agreement_boost >= 0
        /\ result.value.agreement_boost <= Pts(20)
        /\ result.value.ensemble_agreement >= 0
        /\ result.value.ensemble_agreement <= 100

\* the upper cap alone holds: boost and agreement never go below zero
C19_SpreadCappedAbove ==
    SpreadReturned =>
        /\ result.value.agreement_boost >= 0
        /\ result.value.ensemble_agreement >= 0

InRange(s) == \A i \in DOMAIN s : s[i] >= 0 /\ s[i] <= Percent(100)

IndicatorReturned ==
    call.fn \in {"calculate_rsi", "calculate_stochastic", "calculate_adx"}
    /\ result.status = "returned"

\* C17: for every series with high >= low and positive prices, every value
\* of RSI, of Stochastic %K and %D and of ADX lies in [0, 100], at every row,
\* the rows of a partly filled window included.
C17_IndicatorsWithinRange ==
    IndicatorReturned =>
        /\ call.fn = "calculate_rsi" => InRange(result.value)
        /\ call.fn = "calculate_stochastic" =>
               InRange(result.value.k) /\ InRange(result.value.d)
        /\ call.fn = "calculate_adx" => InRange(result.value)

\* an ADX over rows whose highs fall and whose lows rise, with a window that
\* has filled up and an ADX strictly inside the range at the last row
C17_Witness ==
    /\ call.fn = "calculate_adx"
    /\ result.status = "returned"
    /\ Len(call.df) = MaxBars
    /\ call.period < MaxBars
    /\ \E i \in 2..MaxBars : /\ call.df[i].High < call.df[i - 1].High
                             /\ call.df[i].Low > call.df[i - 1].Low
    /\ result.value[MaxBars] > 0
    /\ result.value[MaxBars] < Percent(100)

FlatPrices == \A i \in DOMAIN call.prices : call.prices[i] = call.prices[1]

\* C18: on a flat-price series (every close equal) calculate_rsi returns the
\* neutral value 50 at every row, for each of the periods 5, 14 and 21.
C18_FlatSeriesRsiIsNeutral ==
    (/\ call.fn = "calculate_rsi"
     /\ result.status = "returned"
     /\ call.period \in {5, 14, 21}
     /\ FlatPrices) =>
        \A i \in DOMAIN result.value : result.value[i] = Percent(50)

\* the call gave all three sub-model R2 values
EnsembleConfidenceReturned ==
    /\ call.fn = "calculate_confidence_ensemble"
    /\ result.status = "returned"
    /\ {"lstm_r2", "lgb_r2", "xgb_r2"} \subseteq DOMAIN call.metrics

\* three times the average R2, in hundredths
CallR2Sum == call.metrics["lstm_r2"] + call.metrics["lgb_r2"] + call.metrics["xgb_r2"]

\* the reference function, in confidence units: avgR2 < 0.1 is CallR2Sum < 30,
\* and 80 * avgR2 points are 80 * CallR2Sum units
ReferenceBase ==
    CASE CallR2Sum < 0 -> Pts(35)
      [] CallR2Sum >= 0 /\ CallR2Sum < 30 -> Pts(45)
      [] CallR2Sum >= 30 /\ CallR2Sum < 60 -> Pts(55)
      [] CallR2Sum >= 60 /\ CallR2Sum < 90 -> Pts(65)
      [] CallR2Sum >= 90 ->
            IF Pts(55) + 80 * CallR2Sum > Pts(85) THEN Pts(85)
            ELSE Pts(55) + 80 * CallR2Sum

ReferenceBoost ==
    (100 - (IF call.ensemble_spread > 100 THEN 100 ELSE call.ensemble_spread))
        * (Pts(20) \div 100)

ReferenceVolPenalty ==
    CASE call.volatility < 50 -> 0
      [] call.volatility >= 50 /\ call.volatility < 150 -> 0 - Pts(2)
      [] call.volatility >= 150 /\ call.volatility < 300 -> 0 - Pts(5)
      [] call.volatility >= 300 -> 0 - Pts(10)

ReferenceRegime ==
    CASE call.regime = "Bull" -> Pts(2)
      [] call.regime = "Bear" -> 0 - Pts(2)
      [] OTHER -> 0

ReferenceSum == ReferenceBase + ReferenceBoost + ReferenceVolPenalty + ReferenceRegime

ReferenceConfidence ==
    IF ReferenceSum < Pts(25) THEN Pts(25)
    ELSE IF ReferenceSum > Pts(95) THEN Pts(95)
    ELSE ReferenceSum

\* C20: calculate_confidence_ensemble equals the reference piecewise
\* function for every input: the base from the average R2 (35, 45, 55, 65,
\* else min(85, 55 + 80 * avgR2)), plus (1 - min(spread, 1)) * 20, plus the
\* volatility penalty 0 / -2 / -5 / -10, plus +2 Bull, -2 Bear, 0 Sideways,
\* clamped to [25, 95]; a band boundary value falls in the higher band.
C20_ConfidenceEqualsReference ==
    EnsembleConfidenceReturned => result.value = ReferenceConfidence

\* a call on two band boundaries at once (avgR2 = 0.1, volatility = 0.005)
\* whose confidence is not clamped
C20_Witness ==
    /\ EnsembleConfidenceReturned
    /\ CallR2Sum = 30
    /\ call.volatility = 50
    /\ result.value > Pts(25)
    /\ result.value < Pts(95)
    /\ result.value = Pts(55) + ReferenceBoost - Pts(2) + ReferenceRegime

----------------------------------------------------------------------------
(***************************************************************************)
(* Claims about the prediction record, checked under Spec.                 *)
(***************************************************************************)

\* the prediction records the last call returned
ReturnedRecords ==
    IF ret.op = "predict" THEN (IF ret.raised = "none" THEN {ret.value} ELSE {})
    ELSE IF ret.op = "predict_all"
         THEN {ret.predictions[t] : t \in {u \in DOMAIN ret.predictions :
                                              "error" \notin DOMAIN ret.predictions[u]}}
    ELSE {}

EnsembleRecords == IF IsEnsemble THEN ReturnedRecords ELSE {}

SubForecasts(r) ==
    {r.model_predictions.lstm, r.model_predictions.lightgbm, r.model_predictions.xgboost}

UnitWeights(w) == w[1] + w[2] + w[3] = 100 /\ \A i \in 1..3 : w[i] >= 0

\* the weight triple of a record's bundle
WeightsOf(r) == predictor.models[r.ticker].ensemble_weights

\* C21: the ensemble forecast is w0 * lstm + w1 * lightgbm + w2 * xgboost with
\* the bundle's weight triple; in every reachable state (fresh predictor,
\* after training, after load_models) the triple sums to 1 with non-negative
\* entries, so the ensemble price lies between the lowest and the highest
\* sub-model forecast; predicted_return is
\* (ensemble_price - current_price) / current_price * 100.
C21_EnsembleIsWeightedAverage ==
    IsEnsemble =>
        /\ UnitWeights(predictor.ensemble_weights)
        /\ \A t \in DOMAIN predictor.models :
               UnitWeights(predictor.models[t].ensemble_weights)
        /\ \A r \in EnsembleRecords :
               /\ r.predicted_price =
                      WeightsOf(r)[1] * r.model_predictions.lstm
                      + WeightsOf(r)[2] * r.model_predictions.lightgbm
                      + WeightsOf(r)[3] * r.model_predictions.xgboost
               /\ r.model_predictions.ensemble = r.predicted_price
               /\ \E lo \in SubForecasts(r), hi \in SubForecasts(r) :
                      /\ 100 * lo <= r.predicted_price
                      /\ r.predicted_price <= 100 * hi
               /\ r.predicted_return =
                      ((((r.predicted_price - 100 * r.current_price) * 1000)
                            \div r.current_price) + 5) \div 10

\* a record returned after load_models whose three forecasts differ and whose
\* ensemble price is strictly between the lowest and the highest of them
C21_Witness ==
    /\ IsEnsemble
    /\ \E r \in EnsembleRecords :
           /\ Cardinality(SubForecasts(r)) = 3
           /\ \A f \in SubForecasts(r) : r.predicted_price # 100 * f
           /\ r.predicted_return # 0

\* C22: no division on the prediction path raises on a zero denominator:
\* predict on a series whose most recent close is 0 does not fail with a
\* division-by-zero error when it computes predicted_return.
C22_NoDivisionByZero ==
    (/\ PredictedOnSeries
     /\ Close(RetSeries, RetSeries.n - 1) = 0) =>
        ret.raised # "float division by zero"

----------------------------------------------------------------------------
(***************************************************************************)
(* Further properties of the signal generators, checked under SpecPure.    *)
(***************************************************************************)

SignalRan == Ran("generate_signal") \/ Ran("kse_generate_signal")

HasFragment(reasoning, text) == \E i \in DOMAIN reasoning : reasoning[i][1] = text

RegimeFragmentPresent ==
    /\ call.regime = "Bull" => HasFragment(result.value.reasoning, "Bull regime - wait for dips")
    /\ call.regime = "Bear" =>
           HasFragment(result.value.reasoning, "Bear regime - wait for bounces")

\* 0.6 * confidence, floored at 15
DampedConfidence ==
    IF (3 * call.confidence) \div 5 < Pts(15) THEN Pts(15) ELSE (3 * call.confidence) \div 5

\* C23: whenever generate_signal emits HOLD (a return beyond the threshold
\* with low confidence or with the RSI beyond its ceiling or floor included)
\* the emitted confidence is 0.6 * confidence, subject only to the floor of
\* 15, and the reasoning carries the regime fragment for Bull and Bear.
C23_HoldIsDamped ==
    (SignalRan /\ result.value.action = "HOLD") =>
        /\ result.value.confidence = DampedConfidence
        /\ RegimeFragmentPresent

\* the return lies between the sell and the buy threshold, both included
NeutralReturn ==
    /\ call.predicted_return <= StatedThreshold(call.volatility)
    /\ call.predicted_return >= 0 - StatedThreshold(call.volatility)

\* what does hold: a HOLD on a return inside the thresholds is damped to 60%
\* and carries the regime fragment
C23_NeutralHoldIsDamped ==
    (SignalRan /\ NeutralReturn) =>
        /\ result.value.action = "HOLD"
        /\ result.value.confidence = DampedConfidence
        /\ RegimeFragmentPresent

StrongBuy ==
    /\ call.predicted_return > 2 * StatedThreshold(call.volatility)
    /\ call.confidence > Pts(40)
    /\ call.rsi < 75

StrongSell ==
    /\ call.predicted_return < 0 - 2 * StatedThreshold(call.volatility)
    /\ call.confidence > Pts(40)
    /\ call.rsi > 25

WithBonus ==
    IF call.confidence + Pts(5) > Pts(95) THEN Pts(95) ELSE call.confidence + Pts(5)

\* C24: a return beyond twice the buy threshold with confidence > 40 and
\* RSI < 75 gives BUY with min(95, confidence + 5), and symmetrically SELL
\* below twice the sell threshold with RSI > 25; a BUY or SELL that is not
\* strong keeps the input confidence; for an input confidence <= 95 the
\* emitted confidence never exceeds 95.
C24_StrongSignalBonus ==
    Ran("generate_signal") =>
        /\ StrongBuy => result.value.action = "BUY" /\ result.value.confidence = WithBonus
        /\ StrongSell => result.value.action = "SELL" /\ result.value.confidence = WithBonus
        /\ (result.value.action \in {"BUY", "SELL"} /\ ~StrongBuy /\ ~StrongSell) =>
               result.value.confidence = call.confidence
        /\ call.confidence <= Pts(95) => result.value.confidence <= Pts(95)

\* a strong SELL whose bonus is cut by the cap
C24_Witness ==
    /\ Ran("generate_signal")
    /\ StrongSell
    /\ call.confidence > Pts(90)
    /\ call.confidence < Pts(95)
    /\ result.value.action = "SELL"
    /\ result.value.confidence = Pts(95)

----------------------------------------------------------------------------
(***************************************************************************)
(* Regime classification, checked under SpecPure.                          *)
(***************************************************************************)

\* the regime the claim gives row i: the trailing return against +-0.10,
\* computed exactly
StatedRegime(prices, window, i) ==
    IF i <= window THEN "Sideways"
    ELSE IF 10 * (prices[i] - prices[i - window]) > prices[i - window] THEN "Bull"
    ELSE IF 10 * (prices[i] - prices[i - window]) < 0 - prices[i - window] THEN "Bear"
    ELSE "Sideways"

\* C25: row i is Bull if close[i] / close[i - 252] - 1 > 0.10, Bear if it is
\* < -0.10 and Sideways otherwise (exactly +0.10 and -0.10 are Sideways);
\* every row with fewer than 252 preceding bars is Sideways; the result is a
\* function of the prices alone and the series passed in is not modified.
C25_RegimeClassification ==
    Ran("detect_market_regime") =>
        /\ result.value.df = call.prices
        /\ DOMAIN result.value.Regime = DOMAIN call.prices
        /\ \A i \in DOMAIN call.prices :
               result.value.Regime[i] = StatedRegime(call.prices, call.window, i)

\* what does hold: the same away from a trailing return of exactly +0.10
C25_RegimeAwayFromUpperBoundary ==
    Ran("detect_market_regime") =>
        /\ result.value.df = call.prices
        /\ \A i \in DOMAIN call.prices :
               (i <= call.window \/ 10 * call.prices[i] # 11 * call.prices[i - call.window]) =>
                   result.value.Regime[i] = StatedRegime(call.prices, call.window, i)

----------------------------------------------------------------------------
(***************************************************************************)
(* Sequence windows, checked under SpecPure.                               *)
(***************************************************************************)

\* a price scaled to the range of a scaler, in thousandths
StatedScaled(p, lo, hi) == ((p - lo) * 1000) \div (IF hi = lo THEN 1 ELSE hi - lo)

CallLow == CHOOSE x \in {call.prices[i] : i \in DOMAIN call.prices} :
               \A j \in DOMAIN call.prices : x <= call.prices[j]

CallHigh == CHOOSE x \in {call.prices[i] : i \in DOMAIN call.prices} :
                \A j \in DOMAIN call.prices : call.prices[j] <= x

\* C26: for N bars and window length L, prepare_lstm_sequences yields
\* exactly max(0, N - L) samples; sample i holds the L consecutive scaled
\* prices from position i on and its label is the scaled price right after
\* them; predict builds exactly one window, from the L most recent prices
\* scaled with the stored sequence scaler.
C26_SequenceWindows ==
    LET n == Len(call.prices)
        l == call.sequence_length
    IN  /\ Ran("prepare_lstm_sequences") =>
               /\ Len(result.value.X) = (IF n > l THEN n - l ELSE 0)
               /\ Len(result.value.y) = Len(result.value.X)
               /\ \A i \in DOMAIN result.value.X :
                      /\ Len(result.value.X[i]) = l
                      /\ \A j \in 1..l :
                             result.value.X[i][j] =
                                 StatedScaled(call.prices[i + j - 1], CallLow, CallHigh)
                      /\ result.value.y[i] =
                             StatedScaled(call.prices[i + l], CallLow, CallHigh)
        /\ Ran("lstm_input") =>
               /\ n >= l
               /\ Len(result.value) = 1
               /\ Len(result.value[1]) = l
               /\ \A j \in 1..l :
                      result.value[1][j] =
                          StatedScaled(call.prices[n - l + j], call.scaler.lo, call.scaler.hi)

\* a series that yields several windows of several prices that differ
C26_Witness ==
    /\ Ran("prepare_lstm_sequences")
    /\ call.sequence_length >= 2
    /\ Len(result.value.X) >= 2
    /\ result.value.X[1] # result.value.X[2]
    /\ result.value.y[1] # result.value.y[2]

\* predict's single window on a series longer than the window
C26_WitnessInference ==
    /\ Ran("lstm_input")
    /\ Len(call.prices) > call.sequence_length
    /\ call.sequence_length >= 2
    /\ call.prices[1] # call.prices[Len(call.prices)]

----------------------------------------------------------------------------
(***************************************************************************)
(* The confidence of a prediction record.                                  *)
(***************************************************************************)

ScoreRan == Ran("score_and_signal") \/ Ran("kse_score_and_signal")

\* the lower clamp of the scorer that ran, in hundredths of a point
ScorerFloor == IF call.fn = "score_and_signal" THEN 2500 ELSE 2000

\* C27: the confidence of every prediction record lies in [15, 95]; it is
\* below the scorer's lower clamp (25 ensemble, 20 tabular) only when the
\* signal is HOLD, and it is never below 15.  Checked on the scorer and the
\* signal generator composed as predict composes them.
C27_RecordConfidenceInRange ==
    /\ ScoreRan =>
        /\ result.value.confidence >= 1500
        /\ result.value.confidence <= 9500
        /\ result.value.confidence < ScorerFloor => result.value.signal = "HOLD"

\* the same bounds on every record a predictor returns (under Spec)
C27_ReturnedRecordsInRange ==
    \A r \in ReturnedRecords :
        /\ r.confidence >= 1500
        /\ r.confidence <= 9500
        /\ r.confidence < (IF IsEnsemble THEN 2500 ELSE 2000) => r.signal = "HOLD"

\* a HOLD whose confidence fell below the scorer's lower clamp
C27_Witness ==
    /\ ScoreRan
    /\ result.value.signal = "HOLD"
    /\ result.value.confidence < ScorerFloor

\* a BUY or SELL, which keeps the scorer's confidence or adds the bonus
C27_WitnessTrade ==
    /\ ScoreRan
    /\ result.value.signal \in {"BUY", "SELL"}
    /\ result.value.confidence >= ScorerFloor

----------------------------------------------------------------------------
(***************************************************************************)
(* The two signal generators side by side.                                 *)
(***************************************************************************)

\* both generators applied to the arguments of the call
EnsembleSignal ==
    generate_signal(call.predicted_return, call.confidence, call.rsi,
                    call.volatility, call.regime)

TabularSignal ==
    kse_generate_signal(call.predicted_return, call.confidence, call.rsi,
                        call.volatility, call.regime)

\* the confidence lies in (38, 40], between the two variants' floors
BetweenFloors == call.confidence > Pts(38) /\ call.confidence <= Pts(40)

\* C29: the two variants' signal generators differ only in the confidence
\* floor (40 ensemble, 38 tabular): for every input whose confidence is
\* outside (38, 40] they return the same action, the same confidence and
\* the same reasoning.
C29_GeneratorsAgreeOutsideFloors ==
    (SignalRan /\ ~BetweenFloors) =>
        /\ result.value = EnsembleSignal
        /\ result.value = TabularSignal
        /\ EnsembleSignal.action = TabularSignal.action
        /\ EnsembleSignal.confidence = TabularSignal.confidence
        /\ EnsembleSignal.reasoning = TabularSignal.reasoning

\* a BUY or SELL that both generators emit, with a confidence above both floors
C29_Witness ==
    /\ SignalRan
    /\ call.confidence > Pts(40)
    /\ result.value.action \in {"BUY", "SELL"}
    /\ result.value = TabularSignal
    /\ result.value = EnsembleSignal

\* between the floors the generators do differ: the tabular one trades
\* where the ensemble one holds
C29_WitnessBetweenFloors ==
    /\ SignalRan
    /\ BetweenFloors
    /\ TabularSignal.action = "BUY"
    /\ EnsembleSignal.action = "HOLD"

----------------------------------------------------------------------------
(***************************************************************************)
(* What a failed load_or_train_model leaves behind, checked under SpecApi. *)
(***************************************************************************)

\* load_or_train_model has returned False and no later call has started
FailedCall == api.pc = "idle" /\ api.returned = "False"

\* C28: a failed load or retrain never changes what is being served:
\* whenever load_or_train_model returns False the global predictor is the
\* one of before the call, and the health endpoint never reports "healthy"
\* for a predictor installed by a call that returned False.
C28_FailedCallKeepsPredictor ==
    FailedCall =>
        /\ predictor = api.entry
        /\ (api.entry = None => api.observed.status # "healthy")

\* the failed calls that leave the predictor alone: the CSV is missing or
\* unreadable and nothing was assigned on the way
C28_WitnessUntouched == FailedCall /\ predictor = api.entry /\ predictor # None

----------------------------------------------------------------------------
(***************************************************************************)
(* Bundle completeness, checked under Spec.                                *)
(***************************************************************************)

\* every symbol with a model has its stored scaler(s)
BundlesComplete(self) ==
    \A t \in DOMAIN self.models :
        /\ t \in DOMAIN self.scalers
        /\ self.cls = "HybridEnsemblePredictor" => t \in DOMAIN self.lstm_scalers

\* what store f holds for symbol t is what store g holds for it
StoredSame(f, g, t) ==
    /\ t \in DOMAIN f <=> t \in DOMAIN g
    /\ t \in DOMAIN f => f[t] = g[t]

\* every artifact of symbol t that load_models reads is in the directory
\* (the metrics file may be absent: the defaults stand in for it)
AllArtifactsLoad(t) ==
    /\ t \in DOMAIN disk.saved
    /\ {"lstm.h5", "lgb.txt", "xgb.json", "scaler_gbm.pkl", "scaler_lstm.pkl"}
           \subseteq disk.saved[t].files

\* symbol t is in the predictor as the directory holds it: three
\* sub-models, both scalers, metrics
LoadedWhole(self, t) ==
    /\ t \in DOMAIN self.models
    /\ t \in DOMAIN self.scalers
    /\ t \in DOMAIN self.lstm_scalers
    /\ self.models[t].lstm = disk.saved[t].lstm
    /\ self.models[t].lgb = disk.saved[t].lgb
    /\ self.models[t].xgb = disk.saved[t].xgb
    /\ self.models[t].metrics \in {disk.saved[t].metrics, DefaultMetrics}
    /\ self.scalers[t] = disk.saved[t].scaler_gbm
    /\ self.lstm_scalers[t] = disk.saved[t].scaler_lstm

\* C30: after any sequence of load_data, train_model / train_all_models,
\* load_models and predict, every symbol that has an entry in models has
\* its stored scaler(s), so predict never fails on a missing scaler for a
\* symbol that has a model; load_models adds a symbol either completely or,
\* when one of its artifacts fails to load, not at all.
C30_BundleCompleteness ==
    [][/\ BundlesComplete(predictor')
       /\ (ret'.op = "predict" /\ ret'.ticker \in DOMAIN predictor.models) =>
              ret'.raised \notin {"No scaler", "KeyError"}
       /\ ret'.op = "load_models" =>
              \A t \in Tickers :
                  IF AllArtifactsLoad(t) THEN LoadedWhole(predictor', t)
                  ELSE /\ StoredSame(predictor'.models, predictor.models, t)
                       /\ StoredSame(predictor'.scalers, predictor.scalers, t)
                       /\ StoredSame(predictor'.lstm_scalers, predictor.lstm_scalers, t)
      ]_vars

\* load_models has taken one symbol whole from a directory and skipped
\* another whose price scaler is not there
C30_Witness ==
    /\ ret.op = "load_models"
    /\ \E t \in Tickers : AllArtifactsLoad(t) /\ LoadedWhole(predictor, t)
    /\ \E t \in Tickers : ~AllArtifactsLoad(t) /\ t \notin DOMAIN predictor.models

\* a tabular predictor has trained a symbol and predicted on it
C30_WitnessTrained ==
    /\ IsTabular
    /\ ret.op = "predict"
    /\ ret.raised = "none"
    /\ ret.ticker \in DOMAIN predictor.models
    /\ ret.ticker \in DOMAIN predictor.scalers

====
